---- MODULE Spec2Model ----
(***************************************************************************)
(* Transaction lock manager and transaction executor of akdb               *)
(* (src/src/trans/transaction.c).                                          *)
(*                                                                         *)
(* LockTable is the hash table of lock holders; every holder carries the   *)
(* circular doubly linked list of its locks, written here as the sequence  *)
(* obtained by following nextLock from DLLLocksHead.  Worker threads run   *)
(* AK_execute_commands; every statement that reads or writes shared state  *)
(* is one step of the worker.                                              *)
(***************************************************************************)
EXTENDS Integers, Sequences, FiniteSets, TLC

VARIABLES LockTable, pc, lengthOfArray, task, addresses, address, result,
          commandCalls, accessLockMutex,
          activeThreads, activeTransactionsCount, transactionsCount,
          newTransactionLockMutex, endTransationTestLockMutex,
          mgr, submitted, slot, t1, worker, reg, rw

lockVars == <<LockTable, pc, lengthOfArray, task, addresses, address, result,
              commandCalls, accessLockMutex>>

executorVars == <<activeThreads, activeTransactionsCount, transactionsCount,
                  newTransactionLockMutex, endTransationTestLockMutex,
                  mgr, submitted, slot, t1, worker, reg>>

managerVars == <<executorVars, rw>>

vars == <<lockVars, managerVars>>

(* ------------------------------ bounds --------------------------------- *)
\* number of worker threads that run a task
NumTx == 3
\* largest lengthOfArray of a task
MaxCmds == 2
\* largest number of commands in all the tasks of a batch
MaxBatchCmds == 5
\* number of tasks handed to AK_transaction_manager
MaxTasks == 11
\* number of tasks handed in when the steps of the counters interleave
RaceTasks == 3
\* longest attribute lists given to AK_rel_eq_is_subset and to
\* AK_rel_eq_can_commute
MaxSubsetLen == 3
MaxCommuteLen == 2
\* largest block address given to AK_memory_block_hash, with either sign
MaxBlockAddress == 30
\* longest queue of locks given to AK_delete_lock_entry_list
MaxQueueLen == 10
\* number of calls made on the buckets of holders
MaxBucketCalls == 4

(* --------------------------- program constants ------------------------- *)
NUMBER_OF_KEYS == 7
SHARED_LOCK == 0
EXCLUSIVE_LOCK == 1
WAIT_FOR_UNLOCK == 0
PASS_LOCK_QUEUE == 1
NOT_OK == 0
OK == 1
ABORT == 0
COMMIT == 1
MAX_ACTIVE_TRANSACTIONS_COUNT == 10

Threads == 1..NumTx
\* what result holds before AK_execute_commands has returned
NoResult == COMMIT + 1

\* the optimizer before any call: rw holds the function called (fn), its
\* arguments (a, b), the value it returned (ret), the list the first call of
\* AK_rel_eq_projection returned (first), the list the last call returned
\* (temp) and the number of calls made
NoCall ==
    [fn |-> "none", a |-> <<>>, b |-> <<>>, ret |-> 0,
     first |-> <<>>, temp |-> <<>>, calls |-> 0]

(* ------------------------------ inputs --------------------------------- *)
\* the commands tasks are built from: the commands of AK_test_Transaction
\* plus one on a table the storage does not know
Commands ==
    { [tblName |-> "student",   id_command |-> "SELECT"],
      [tblName |-> "student",   id_command |-> "UPDATE"],
      [tblName |-> "professor", id_command |-> "DELETE"],
      [tblName |-> "unknown",   id_command |-> "SELECT"] }

\* storage collaborator: first extent of the table, address_from[0] = 0 when
\* the table has no blocks
AK_get_table_addresses(tblName) ==
    CASE tblName = "student"   -> [address_from |-> 1, address_to |-> 2]
      [] tblName = "professor" -> [address_from |-> 8, address_to |-> 10]
      [] OTHER                 -> [address_from |-> 0, address_to |-> 0]

\* one command of every kind on each table the storage knows
KindCommands ==
    [tblName : {"student", "professor"},
     id_command : {"SELECT", "INSERT", "UPDATE", "DELETE"}]

(* -------------------------- hash table of holders ---------------------- *)
\* C remainder: the sign follows the dividend
AK_memory_block_hash(blockMemoryAddress) ==
    IF blockMemoryAddress >= 0
    THEN blockMemoryAddress % NUMBER_OF_KEYS
    ELSE 0 - ((0 - blockMemoryAddress) % NUMBER_OF_KEYS)

\* position of the holder of blockAddress in its bucket, 0 for NULL
AK_search_existing_link_for_hook(T, blockAddress) ==
    LET bucket == T[AK_memory_block_hash(blockAddress)]
        hit == {k \in 1..Len(bucket) : bucket[k].address = blockAddress}
    IN  IF hit = {} THEN 0 ELSE CHOOSE k \in hit : \A j \in hit : k <= j

\* the bucket after the holder of blockAddress was added at its tail
AK_add_hash_entry_list(bucket, blockAddress, type, tid) ==
    Append(bucket, [address |-> blockAddress, lock_type |-> type,
                    transactionId |-> tid, DLLLocks |-> <<>>])

\* the locks of a block, head first; empty when the block has no holder
Queue(T, blockAddress) ==
    LET k == AK_search_existing_link_for_hook(T, blockAddress)
    IN  IF k = 0 THEN <<>>
        ELSE T[AK_memory_block_hash(blockAddress)][k].DLLLocks

(* ----------------------------- lock lists ------------------------------ *)
PosOf(q, ptr) ==
    IF \E k \in 1..Len(q) : q[k].ptr = ptr
    THEN CHOOSE k \in 1..Len(q) : q[k].ptr = ptr
    ELSE 0

\* the oracle without the shared-with-shared case
AK_isLock_waiting_NoCoalescing(q, type, transactionId, ptr) ==
    IF q[1].ptr = ptr THEN PASS_LOCK_QUEUE
    ELSE IF q[1].lock_type = EXCLUSIVE_LOCK /\ q[1].TransactionId = transactionId
         THEN PASS_LOCK_QUEUE
    ELSE WAIT_FOR_UNLOCK

\* the oracle without the comparison of the transaction identities
AK_isLock_waiting_NoReentry(q, type, transactionId, ptr) ==
    IF q[1].ptr = ptr THEN PASS_LOCK_QUEUE
    ELSE IF q[1].lock_type = SHARED_LOCK /\ type = SHARED_LOCK
         THEN PASS_LOCK_QUEUE
    ELSE WAIT_FOR_UNLOCK

AK_isLock_waiting(q, type, transactionId, ptr) ==
    IF q[1].ptr = ptr THEN PASS_LOCK_QUEUE
    ELSE IF q[1].lock_type = SHARED_LOCK
         THEN IF type = SHARED_LOCK THEN PASS_LOCK_QUEUE
              ELSE WAIT_FOR_UNLOCK
    ELSE IF q[1].lock_type = EXCLUSIVE_LOCK /\ q[1].TransactionId = transactionId
         THEN PASS_LOCK_QUEUE
    ELSE WAIT_FOR_UNLOCK

\* AK_isLock_waiting applied to the lock ptr of holder elem: the flag is
\* stored in the lock and the holder takes the type of a head that passes
SetWaiting(elem, type, transactionId, ptr) ==
    LET q == elem.DLLLocks
        k == PosOf(q, ptr)
    IN  [elem EXCEPT
           !.DLLLocks = [q EXCEPT ![k].isWaiting =
                            AK_isLock_waiting(q, type, transactionId, ptr)],
           !.lock_type = IF q[1].ptr = ptr THEN type ELSE @]

AK_add_lock(elem, type, transactionId, ptr) ==
    SetWaiting([elem EXCEPT !.DLLLocks =
                   Append(@, [TransactionId |-> transactionId,
                              lock_type |-> type,
                              isWaiting |-> 0,
                              ptr |-> ptr])],
               type, transactionId, ptr)

AK_create_lock(T, blockAddress, type, transactionId, ptr) ==
    LET h == AK_memory_block_hash(blockAddress)
        k == AK_search_existing_link_for_hook(T, blockAddress)
        bucket == IF k = 0
                  THEN AK_add_hash_entry_list(T[h], blockAddress, type, transactionId)
                  ELSE T[h]
        k1 == IF k = 0 THEN Len(bucket) ELSE k
    IN  [T EXCEPT ![h] =
           [bucket EXCEPT ![k1] = AK_add_lock(bucket[k1], type, transactionId, ptr)]]

\* position of the first lock of id met by the search, 0 for NULL: the head,
\* then NUMBER_OF_KEYS + 1 steps around the circular list
AK_search_lock_entry_list_by_key(q, id) ==
    IF q = <<>> THEN 0
    ELSE IF q[1].TransactionId = id THEN 1
    ELSE LET hit == {c \in 0..NUMBER_OF_KEYS :
                        q[(c % Len(q)) + 1].TransactionId = id}
         IN  IF hit = {} THEN 0
             ELSE LET c == CHOOSE x \in hit : \A y \in hit : x <= y
                  IN  (c % Len(q)) + 1

RemoveAt(q, k) == SubSeq(q, 1, k - 1) \o SubSeq(q, k + 1, Len(q))

\* the deletion that unlinks the head of the list instead of the lock found
AK_delete_lock_entry_list_Head(q, id) ==
    IF AK_search_lock_entry_list_by_key(q, id) = 0 THEN q ELSE Tail(q)

RECURSIVE AK_delete_lock_entry_list(_, _)
AK_delete_lock_entry_list(q, id) ==
    LET k == AK_search_lock_entry_list_by_key(q, id)
    IN  IF k = 0 THEN q
        ELSE AK_delete_lock_entry_list(RemoveAt(q, k), id)

(* ------------------------------ workers -------------------------------- *)
\* the switch that asks for a shared lock for UPDATE
LockTypeOf_UpdateShared(id_command) ==
    IF id_command \in {"SELECT", "UPDATE"} THEN SHARED_LOCK ELSE EXCLUSIVE_LOCK

LockTypeOf(id_command) ==
    IF id_command = "SELECT" THEN SHARED_LOCK ELSE EXCLUSIVE_LOCK

\* AK_get_memory_blocks without the test of address_from[0]
AK_get_memory_blocks_NoTest(tblName) ==
    LET a == AK_get_table_addresses(tblName)
    IN  [status |-> OK,
         list |-> IF a.address_from = 0 THEN <<0>>
                  ELSE [j \in 1..(a.address_to - a.address_from) |->
                           a.address_from + j - 1]]

\* the list AK_get_memory_blocks builds, <<>> with NOT_OK
AK_get_memory_blocks(tblName) ==
    LET a == AK_get_table_addresses(tblName)
    IN  IF a.address_from = 0
        THEN [status |-> NOT_OK, list |-> <<>>]
        ELSE [status |-> OK,
              list |-> [j \in 1..(a.address_to - a.address_from) |->
                           a.address_from + j - 1]]

\* the command being served, its block and the lock of the running acquire
CurCommand(t) == task[t][Len(task[t])]
CurBlock(t) == addresses[t][address[t]]
CurType(t) == LockTypeOf(CurCommand(t).id_command)
CurLock(t) == <<t, Len(task[t]), address[t]>>

RECURSIVE Sum(_, _)
Sum(f, S) ==
    IF S = {} THEN 0
    ELSE LET x == CHOOSE y \in S : TRUE IN f[x] + Sum(f, S \ {x})

\* the batches of tasks: every task has at least one command; the threads
\* are interchangeable, so the longer tasks are given to the lower threads
Batches ==
    {l \in [Threads -> 1..MaxCmds] :
        /\ Sum(l, Threads) <= MaxBatchCmds
        /\ \A t, u \in Threads : t < u => l[t] >= l[u]}

\* the executor before the first task: no thread in a slot;
\* newTransactionLockMutex as initialised, or locked as AK_test_Transaction
\* locks it before it hands in its tasks
ManagerInit ==
    /\ activeThreads = [i \in 1..MAX_ACTIVE_TRANSACTIONS_COUNT |-> 0]
    /\ activeTransactionsCount = 0
    /\ transactionsCount = 0
    /\ newTransactionLockMutex \in {0, 1}
    /\ endTransationTestLockMutex = 1
    /\ mgr = "submit"
    /\ submitted = 0
    /\ slot = 0
    /\ t1 = 0
    /\ worker = [w \in 1..MaxTasks |-> "none"]
    /\ reg = [w \in 0..MaxTasks |-> 0]

LockInit ==
    /\ LockTable = [h \in 0..(NUMBER_OF_KEYS - 1) |-> <<>>]
    /\ pc = [t \in Threads |-> "for"]
    /\ task = [t \in Threads |-> <<>>]
    /\ addresses = [t \in Threads |-> <<>>]
    /\ address = [t \in Threads |-> 0]
    /\ result = [t \in Threads |-> NoResult]
    /\ commandCalls = [t \in Threads |-> 0]
    /\ accessLockMutex = 0

\* worker threads that run the tasks of a batch against the lock table
Init ==
    /\ LockInit
    /\ lengthOfArray \in Batches
    /\ ManagerInit /\ newTransactionLockMutex = 1
    /\ rw = NoCall

\* AK_execute_commands, head of the for loop: the next command of the array
\* and its AK_get_memory_blocks
NextCommand(t, c) ==
    /\ pc[t] = "for"
    /\ Len(task[t]) < lengthOfArray[t]
    /\ task' = [task EXCEPT ![t] = Append(@, c)]
    /\ LET r == AK_get_memory_blocks(c.tblName)
       IN  IF r.status = NOT_OK
           THEN /\ result' = [result EXCEPT ![t] = ABORT]
                /\ pc' = [pc EXCEPT ![t] = "done"]
                /\ addresses' = [addresses EXCEPT ![t] = <<>>]
                /\ address' = [address EXCEPT ![t] = 0]
           ELSE /\ addresses' = [addresses EXCEPT ![t] = r.list]
                /\ address' = [address EXCEPT ![t] = 1]
                /\ pc' = [pc EXCEPT ![t] = "acquire"]
                /\ UNCHANGED result
    /\ UNCHANGED <<managerVars, lengthOfArray, LockTable, commandCalls, accessLockMutex>>

\* i = lengthOfArray: AK_command runs
EndOfArray(t) ==
    /\ pc[t] = "for"
    /\ Len(task[t]) = lengthOfArray[t]
    /\ commandCalls' = [commandCalls EXCEPT ![t] = @ + 1]
    /\ pc' = [pc EXCEPT ![t] = "release"]
    /\ UNCHANGED <<managerVars, lengthOfArray, LockTable, task, addresses, address, result, accessLockMutex>>

\* AK_acquire_lock: AK_create_lock under acquireLockMutex
AcquireCreate(t) ==
    /\ pc[t] = "acquire"
    /\ LockTable' = AK_create_lock(LockTable, CurBlock(t), CurType(t), t, CurLock(t))
    /\ pc' = [pc EXCEPT ![t] = "test"]
    /\ UNCHANGED <<managerVars, lengthOfArray, task, addresses, address, result, commandCalls, accessLockMutex>>

MyLock(t) ==
    LET q == Queue(LockTable, CurBlock(t))
    IN  q[PosOf(q, CurLock(t))]

\* the acquire that returns without looking at the flag
AcquireTest_NoWait(t) ==
    /\ pc[t] = "test"
    /\ address' = [address EXCEPT ![t] = @ + 1]
    /\ pc' = [pc EXCEPT ![t] =
                IF address[t] < Len(addresses[t]) THEN "acquire" ELSE "for"]
    /\ UNCHANGED <<managerVars, lengthOfArray, LockTable, task, addresses, result,
                   commandCalls, accessLockMutex>>

\* while (!lock->isWaiting): out of the loop the acquire returns OK and the
\* worker moves to the next address, or to the next command
AcquireTest(t) ==
    /\ pc[t] = "test"
    /\ IF MyLock(t).isWaiting = 0
       THEN /\ pc' = [pc EXCEPT ![t] = "lockwait"]
            /\ UNCHANGED address
       ELSE /\ address' = [address EXCEPT ![t] = @ + 1]
            /\ pc' = [pc EXCEPT ![t] =
                        IF address[t] < Len(addresses[t]) THEN "acquire" ELSE "for"]
    /\ UNCHANGED <<managerVars, lengthOfArray, LockTable, task, addresses, result, commandCalls, accessLockMutex>>

\* pthread_mutex_lock(&acquireLockMutex); pthread_cond_wait(&cond_lock, ..)
AcquireCondWait(t) ==
    /\ pc[t] = "lockwait"
    /\ pc' = [pc EXCEPT ![t] = "sleeping"]
    /\ UNCHANGED <<managerVars, lengthOfArray, LockTable, task, addresses, address, result, commandCalls,
                   accessLockMutex>>

\* pthread_cond_wait may return without a broadcast
SpuriousWake(t) ==
    /\ pc[t] = "sleeping"
    /\ pc' = [pc EXCEPT ![t] = "woken"]
    /\ UNCHANGED <<managerVars, lengthOfArray, LockTable, task, addresses, address, result, commandCalls,
                   accessLockMutex>>

\* the wait loop that takes every return of pthread_cond_wait for a grant
AcquireRecheck_Pass(t) ==
    /\ pc[t] = "woken"
    /\ LET b == CurBlock(t)
           h == AK_memory_block_hash(b)
           k == AK_search_existing_link_for_hook(LockTable, b)
           q == LockTable[h][k].DLLLocks
       IN  LockTable' = [LockTable EXCEPT ![h][k].DLLLocks[PosOf(q, CurLock(t))].isWaiting =
                            PASS_LOCK_QUEUE]
    /\ pc' = [pc EXCEPT ![t] = "test"]
    /\ UNCHANGED <<managerVars, lengthOfArray, task, addresses, address, result, commandCalls, accessLockMutex>>

\* after the wait: lock->isWaiting = AK_isLock_waiting(tmp, ...)
AcquireRecheck(t) ==
    /\ pc[t] = "woken"
    /\ LET b == CurBlock(t)
           h == AK_memory_block_hash(b)
           k == AK_search_existing_link_for_hook(LockTable, b)
       IN  LockTable' = [LockTable EXCEPT ![h][k] =
                            SetWaiting(@, CurType(t), t, CurLock(t))]
    /\ pc' = [pc EXCEPT ![t] = "test"]
    /\ UNCHANGED <<managerVars, lengthOfArray, task, addresses, address, result, commandCalls, accessLockMutex>>

\* AK_release_locks: pthread_mutex_lock(&accessLockMutex)
ReleaseLock(t) ==
    /\ pc[t] = "release"
    /\ accessLockMutex = 0
    /\ accessLockMutex' = t
    /\ address' = [address EXCEPT ![t] = 1]
    /\ pc' = [pc EXCEPT ![t] = "delete"]
    /\ UNCHANGED <<managerVars, lengthOfArray, LockTable, task, addresses, result, commandCalls>>

\* AK_delete_lock_entry_list(addressesTmp->adresa, transactionId)
ReleaseDelete(t) ==
    /\ pc[t] = "delete"
    /\ LET b == CurBlock(t)
           h == AK_memory_block_hash(b)
           k == AK_search_existing_link_for_hook(LockTable, b)
       IN  LockTable' = [LockTable EXCEPT ![h][k].DLLLocks =
                            AK_delete_lock_entry_list(@, t)]
    /\ pc' = [pc EXCEPT ![t] = "notify"]
    /\ UNCHANGED <<managerVars, lengthOfArray, task, addresses, address, result, commandCalls, accessLockMutex>>

\* the threads pthread_cond_broadcast(&cond_lock) wakes
AK_on_lock_release(p) ==
    [u \in DOMAIN p |-> IF p[u] = "sleeping" THEN "woken" ELSE p[u]]

\* observable_transaction->AK_lock_released(), then the next address; after
\* the last one the mutex is unlocked and AK_execute_commands returns COMMIT
ReleaseNotify(t) ==
    /\ pc[t] = "notify"
    /\ IF address[t] < Len(addresses[t])
       THEN /\ pc' = [AK_on_lock_release(pc) EXCEPT ![t] = "delete"]
            /\ address' = [address EXCEPT ![t] = @ + 1]
            /\ UNCHANGED <<accessLockMutex, result, addresses>>
       ELSE /\ pc' = [AK_on_lock_release(pc) EXCEPT ![t] = "done"]
            /\ accessLockMutex' = 0
            /\ result' = [result EXCEPT ![t] = COMMIT]
            /\ address' = [address EXCEPT ![t] = 0]
            /\ addresses' = [addresses EXCEPT ![t] = <<>>]
    /\ UNCHANGED <<managerVars, lengthOfArray, LockTable, task, commandCalls>>

StepOn(t, C) ==
    \/ \E c \in C : NextCommand(t, c)
    \/ EndOfArray(t)
    \/ AcquireCreate(t)
    \/ AcquireTest(t)
    \/ AcquireCondWait(t)
    \/ AcquireRecheck(t)
    \/ ReleaseLock(t)
    \/ ReleaseDelete(t)
    \/ ReleaseNotify(t)

Step(t) == StepOn(t, Commands)

Next == \E t \in Threads : Step(t) \/ SpuriousWake(t)

Spec == Init /\ [][Next]_vars

\* tasks of one command each
SingleInit ==
    /\ LockInit
    /\ lengthOfArray = [t \in Threads |-> 1]
    /\ ManagerInit /\ newTransactionLockMutex = 1
    /\ rw = NoCall

\* every thread that can take a step of its code eventually takes it; a
\* wait on the condition variable ends only with a broadcast
FairSpec == SingleInit /\ [][Next]_vars /\ \A t \in Threads : WF_vars(Step(t))

\* tasks of one command each, of every kind
KindNext == \E t \in Threads : StepOn(t, KindCommands) \/ SpuriousWake(t)

KindSpec == SingleInit /\ [][KindNext]_vars

(* ------------------------- transaction executor ------------------------ *)
\* the search that takes the first slot without the test for NULL
FreeSlot_NoTest(a) == 1

\* first empty slot of activeThreads, 0 when all are taken
FreeSlot(a) ==
    IF \E i \in DOMAIN a : a[i] = 0
    THEN CHOOSE i \in DOMAIN a : a[i] = 0 /\ \A j \in DOMAIN a : a[j] = 0 => i <= j
    ELSE 0

\* slot of thread w, 0 when it is in none
SlotOf(a, w) ==
    IF \E i \in DOMAIN a : a[i] = w
    THEN CHOOSE i \in DOMAIN a : a[i] = w /\ \A j \in DOMAIN a : a[j] = w => i <= j
    ELSE 0

\* AK_transaction_manager: transactionsCount++
Submit ==
    /\ mgr = "submit"
    /\ submitted < MaxTasks
    /\ submitted' = submitted + 1
    /\ transactionsCount' = transactionsCount + 1
    /\ mgr' = "check"
    /\ UNCHANGED <<activeThreads, activeTransactionsCount, newTransactionLockMutex,
                   endTransationTestLockMutex, slot, t1, worker, reg, lockVars, rw>>

\* if (activeTransactionsCount < MAX_ACTIVE_TRANSACTIONS_COUNT)
CheckActive ==
    /\ mgr = "check"
    /\ mgr' = IF activeTransactionsCount < MAX_ACTIVE_TRANSACTIONS_COUNT
              THEN "create" ELSE "lock"
    /\ UNCHANGED <<activeThreads, activeTransactionsCount, transactionsCount,
                   newTransactionLockMutex, endTransationTestLockMutex,
                   submitted, slot, t1, worker, reg, lockVars, rw>>

\* pthread_mutex_lock(&newTransactionLockMutex)
LockNewTransaction ==
    /\ mgr = "lock"
    /\ newTransactionLockMutex = 0
    /\ newTransactionLockMutex' = 1
    /\ mgr' = "create"
    /\ UNCHANGED <<activeThreads, activeTransactionsCount, transactionsCount,
                   endTransationTestLockMutex, submitted, slot, t1, worker, reg, lockVars, rw>>

\* the identity pthread_create gives the new thread: thread identities are
\* opaque, so it is the least one that no running thread has and no slot holds
NewThread ==
    CHOOSE w \in 1..MaxTasks :
        /\ worker[w] = "none" /\ \A i \in DOMAIN activeThreads : activeThreads[i] # w
        /\ \A v \in 1..MaxTasks :
              (worker[v] = "none" /\ \A i \in DOMAIN activeThreads : activeThreads[i] # v)
                  => w <= v

\* AK_create_new_transaction_thread: pthread_create in the first empty slot,
\* NOT_OK without a thread when there is none
AK_create_new_transaction_thread ==
    /\ mgr = "create"
    /\ LET i == FreeSlot(activeThreads)
       IN  IF i = 0
           THEN /\ mgr' = "submit"
                /\ UNCHANGED <<slot, worker, t1>>
           ELSE /\ worker' = [worker EXCEPT ![NewThread] = "running"]
                /\ t1' = NewThread
                /\ slot' = i
                /\ mgr' = "assign"
    /\ UNCHANGED <<activeThreads, activeTransactionsCount, transactionsCount,
                   newTransactionLockMutex, endTransationTestLockMutex,
                   submitted, reg, lockVars, rw>>

\* activeThreads[i] = t1; activeTransactionsCount++
AssignSlot ==
    /\ mgr = "assign"
    /\ activeThreads' = [activeThreads EXCEPT ![slot] = t1]
    /\ activeTransactionsCount' = activeTransactionsCount + 1
    /\ slot' = 0
    /\ t1' = 0
    /\ mgr' = "submit"
    /\ UNCHANGED <<transactionsCount, newTransactionLockMutex,
                   endTransationTestLockMutex, submitted, worker, reg, lockVars, rw>>

\* AK_on_transaction_end(pthread_self()) of worker w:
\* AK_remove_transaction_thread, the unlock of newTransactionLockMutex,
\* transactionsCount--, and AK_on_all_transactions_end when it is 0
AK_on_transaction_end(w) ==
    /\ worker[w] = "running"
    /\ LET i == SlotOf(activeThreads, w)
       IN  IF i = 0
           THEN UNCHANGED <<activeThreads, activeTransactionsCount>>
           ELSE /\ activeThreads' = [activeThreads EXCEPT ![i] = 0]
                /\ activeTransactionsCount' = activeTransactionsCount - 1
    /\ newTransactionLockMutex' = 0
    /\ transactionsCount' = transactionsCount - 1
    /\ endTransationTestLockMutex' =
          IF transactionsCount - 1 = 0 THEN 0 ELSE endTransationTestLockMutex
    /\ worker' = [worker EXCEPT ![w] = "none"]
    /\ UNCHANGED <<mgr, submitted, slot, t1, reg, lockVars, rw>>

ManagerNext ==
    \/ Submit
    \/ CheckActive
    \/ LockNewTransaction
    \/ AK_create_new_transaction_thread
    \/ AssignSlot
    \/ \E w \in 1..MaxTasks : AK_on_transaction_end(w)

\* the main thread hands MaxTasks tasks to AK_transaction_manager while
\* the workers it spawned finish; what a worker does to the lock table is
\* left out here
ManagerStart ==
    /\ LockInit
    /\ lengthOfArray = [t \in Threads |-> 1]
    /\ ManagerInit
    /\ rw = NoCall

ManagerSpec == ManagerStart /\ [][ManagerNext]_vars

(* -------------- the executor, statement by statement ------------------- *)
\* transactionsCount is written by the main thread and by every worker
\* without a lock: transactionsCount++ and transactionsCount-- are a load
\* into the register of the thread (reg[0] for the main thread) and a store

\* AK_transaction_manager: the load of transactionsCount++
SubmitLoad ==
    /\ mgr = "submit"
    /\ submitted < RaceTasks
    /\ submitted' = submitted + 1
    /\ reg' = [reg EXCEPT ![0] = transactionsCount]
    /\ mgr' = "incr"
    /\ UNCHANGED <<activeThreads, activeTransactionsCount, transactionsCount,
                   newTransactionLockMutex, endTransationTestLockMutex,
                   slot, t1, worker, lockVars, rw>>

\* AK_transaction_manager: the store of transactionsCount++
SubmitStore ==
    /\ mgr = "incr"
    /\ transactionsCount' = reg[0] + 1
    /\ mgr' = "check"
    /\ UNCHANGED <<activeThreads, activeTransactionsCount,
                   newTransactionLockMutex, endTransationTestLockMutex,
                   submitted, slot, t1, worker, reg, lockVars, rw>>

\* AK_on_transaction_end of worker w: AK_remove_transaction_thread and the
\* unlock of newTransactionLockMutex
EndRemove(w) ==
    /\ worker[w] = "running"
    /\ LET i == SlotOf(activeThreads, w)
       IN  IF i = 0
           THEN UNCHANGED <<activeThreads, activeTransactionsCount>>
           ELSE /\ activeThreads' = [activeThreads EXCEPT ![i] = 0]
                /\ activeTransactionsCount' = activeTransactionsCount - 1
    /\ newTransactionLockMutex' = 0
    /\ worker' = [worker EXCEPT ![w] = "load"]
    /\ UNCHANGED <<transactionsCount, endTransationTestLockMutex,
                   mgr, submitted, slot, t1, reg, lockVars, rw>>

\* the load of transactionsCount--
EndLoad(w) ==
    /\ worker[w] = "load"
    /\ reg' = [reg EXCEPT ![w] = transactionsCount]
    /\ worker' = [worker EXCEPT ![w] = "store"]
    /\ UNCHANGED <<activeThreads, activeTransactionsCount, transactionsCount,
                   newTransactionLockMutex, endTransationTestLockMutex,
                   mgr, submitted, slot, t1, lockVars, rw>>

\* the store of transactionsCount--
EndStore(w) ==
    /\ worker[w] = "store"
    /\ transactionsCount' = reg[w] - 1
    /\ worker' = [worker EXCEPT ![w] = "test"]
    /\ UNCHANGED <<activeThreads, activeTransactionsCount,
                   newTransactionLockMutex, endTransationTestLockMutex,
                   mgr, submitted, slot, t1, reg, lockVars, rw>>

\* if (transactionsCount == 0) AK_all_transactions_finished(), which is
\* AK_on_all_transactions_end: the unlock of endTransationTestLockMutex
EndTest(w) ==
    /\ worker[w] = "test"
    /\ endTransationTestLockMutex' =
          IF transactionsCount = 0 THEN 0 ELSE endTransationTestLockMutex
    /\ worker' = [worker EXCEPT ![w] = "none"]
    /\ UNCHANGED <<activeThreads, activeTransactionsCount, transactionsCount,
                   newTransactionLockMutex, mgr, submitted, slot, t1, reg, lockVars, rw>>

\* with RaceTasks tasks activeTransactionsCount stays under
\* MAX_ACTIVE_TRANSACTIONS_COUNT, so the manager never waits for
\* newTransactionLockMutex
EndNext ==
    \/ SubmitLoad
    \/ SubmitStore
    \/ CheckActive
    \/ AK_create_new_transaction_thread
    \/ AssignSlot
    \/ \E w \in 1..MaxTasks :
          EndRemove(w) \/ EndLoad(w) \/ EndStore(w) \/ EndTest(w)

\* AK_test_Transaction: both mutexes locked, then RaceTasks tasks handed in
EndStart ==
    /\ LockInit
    /\ lengthOfArray = [t \in Threads |-> 1]
    /\ ManagerInit /\ newTransactionLockMutex = 1
    /\ rw = NoCall

EndSpec == EndStart /\ [][EndNext]_vars

(* ------------------- projection equivalence optimizer ------------------ *)
\* (src/src/opti/rel_eq_projection.c)  A string is the sequence of its
\* characters without the terminating NUL, so the size of a list element is
\* Len(data) + 1.  The sets of tokens stay far below MAX_TOKENS.
ATTR_DELIMITER == ";"
\* the backquote character
ATTR_ESCAPE == "backquote"
NUL == "NUL"
EXIT_SUCCESS == 0
EXIT_FAILURE == 1
TYPE_OPERATOR == "TYPE_OPERATOR"
TYPE_OPERAND == "TYPE_OPERAND"
TYPE_ATTRIBS == "TYPE_ATTRIBS"
TYPE_CONDITION == "TYPE_CONDITION"
RO_PROJECTION == "p"
RO_SELECTION == "s"
RO_UNION == "u"
RO_INTERSECT == "i"
RO_THETA_JOIN == "t"
RO_NAT_JOIN == "n"
RO_EXCEPT == "e"
RO_RENAME == "r"

\* data[k] of a string, k counted from 0 as in C
CharAt(data, k) == IF k < Len(data) THEN data[k + 1] ELSE NUL

\* the tokens the calls of strtok_r(.., ATTR_DELIMITER, ..) return
RECURSIVE strtok_r(_, _, _)
strtok_r(str, token, tokens) ==
    IF str = <<>>
    THEN IF token = <<>> THEN tokens ELSE Append(tokens, token)
    ELSE IF Head(str) = ATTR_DELIMITER
         THEN strtok_r(Tail(str), <<>>,
                       IF token = <<>> THEN tokens ELSE Append(tokens, token))
    ELSE strtok_r(Tail(str), Append(token, Head(str)), tokens)

Tokens(str) == strtok_r(str, <<>>, <<>>)

\* strcat of the strings of a list with ATTR_DELIMITER between them
RECURSIVE Join(_)
Join(list) ==
    IF list = <<>> THEN <<>>
    ELSE IF Len(list) = 1 THEN list[1]
    ELSE list[1] \o <<ATTR_DELIMITER>> \o Join(Tail(list))

\* token_id after the two loops: the pairs of a token of the subset and an
\* equal token of the set
AK_rel_eq_is_subset(set, subset) ==
    LET tokens_set == Tokens(set)
        tokens_subset == Tokens(subset)
        token_id == Cardinality(
            {p \in (1..Len(tokens_subset)) \X (1..Len(tokens_set)) :
                tokens_set[p[2]] = tokens_subset[p[1]]})
    IN  IF Len(tokens_set) < Len(tokens_subset) THEN EXIT_FAILURE
        ELSE IF token_id # Len(tokens_subset) THEN EXIT_FAILURE
        ELSE EXIT_SUCCESS

\* strcspn(data + from, ATTR_ESCAPE)
strcspn(data, from) ==
    LET stops == {k \in from..(Len(data) - 1) : CharAt(data, k) = ATTR_ESCAPE}
    IN  IF stops = {} THEN Len(data) - from
        ELSE (CHOOSE k \in stops : \A j \in stops : k <= j) - from

\* the for loop of AK_rel_eq_can_commute from next_chr on; temp_cond is the
\* buffer that memmove fills without a terminating NUL, so it keeps the end
\* of a longer name it held before
RECURSIVE CanCommuteFrom(_, _, _, _)
CanCommuteFrom(cond, tokens, next_chr, temp_cond) ==
    IF next_chr >= Len(cond) + 1 THEN EXIT_SUCCESS
    ELSE IF CharAt(cond, next_chr) = ATTR_ESCAPE
         THEN LET n == strcspn(cond, next_chr + 1)
                  moved == SubSeq(cond, next_chr + 2, next_chr + 1 + n)
                  buf == moved \o SubSeq(temp_cond, n + 1, Len(temp_cond))
              IN  IF \E k \in 1..Len(tokens) : tokens[k] = buf
                  THEN CanCommuteFrom(cond, tokens, next_chr + Len(buf) + 2, buf)
                  ELSE EXIT_FAILURE
    ELSE CanCommuteFrom(cond, tokens, next_chr + 1, temp_cond)

AK_rel_eq_can_commute(attribs, cond) ==
    CanCommuteFrom(cond, Tokens(attribs), 0, <<>>)

\* names of tables and attributes
tblR == <<"R">>
tblS == <<"S">>
tblT == <<"T">>
profesor == <<"p", "r", "o", "f", "e", "s", "o", "r">>
col_x == <<"x">>
col_y == <<"y">>
col_z == <<"z">>
col_w == <<"w">>
id == <<"i", "d">>
firstname == <<"f", "i", "r", "s", "t", "n", "a", "m", "e">>
job == <<"j", "o", "b">>
\* a name no table has: y followed by the tail of job
yob == <<"y", "o", "b">>
year == <<"y", "e", "a", "r">>
tezina == <<"t", "e", "z", "i", "n", "a">>

\* the headers of the tables: profesor as AK_rel_eq_projection_test creates
\* it, R(x, z) and S(y, w); no other table exists
AK_get_header(tblName) ==
    CASE tblName = profesor -> <<id, firstname, job, year, tezina>>
      [] tblName = tblR     -> <<col_x, col_z>>
      [] tblName = tblS     -> <<col_y, col_w>>
      [] OTHER              -> <<>>

AK_rel_eq_get_attributes(tblName) == AK_get_header(tblName)

\* what a function returns for a NULL pointer
NULL == <<"NULL">>

\* the attributes of the table that are equal to the token, in table order
Matches(list_attr, token) == SelectSeq(list_attr, LAMBDA a : a = token)

RECURSIVE MatchesOfAll(_, _)
MatchesOfAll(list_attr, tokens) ==
    IF tokens = <<>> THEN <<>>
    ELSE Matches(list_attr, Head(tokens)) \o MatchesOfAll(list_attr, Tail(tokens))

\* AK_rel_eq_projection_attributes with the two loops exchanged: for each
\* attribute of the table, the tokens equal to it
AK_rel_eq_projection_attributes_TableOrder(attribs, tblName) ==
    LET list_attr == AK_rel_eq_get_attributes(tblName)
    IN  IF Len(list_attr) <= 0 THEN NULL
        ELSE Join(MatchesOfAll(Tokens(attribs), list_attr))

\* AK_rel_eq_projection_attributes without the test of the size of list_attr
AK_rel_eq_projection_attributes_NoSizeTest(attribs, tblName) ==
    Join(MatchesOfAll(AK_rel_eq_get_attributes(tblName), Tokens(attribs)))

AK_rel_eq_projection_attributes(attribs, tblName) ==
    LET list_attr == AK_rel_eq_get_attributes(tblName)
    IN  IF Len(list_attr) <= 0 THEN NULL
        ELSE Join(MatchesOfAll(list_attr, Tokens(attribs)))

\* strcpy(attr + next_address++, ..) leaves one more character in attr
Commit(attr, chr) == IF chr = NUL THEN attr ELSE Append(attr, chr)

\* the while loop of AK_rel_eq_collect_cond_attributes from next_chr on
RECURSIVE CollectFrom(_, _, _, _)
CollectFrom(cond, next_chr, attr_end, attr) ==
    IF next_chr >= Len(cond) + 1 THEN attr
    ELSE IF CharAt(cond, next_chr) = ATTR_ESCAPE
         THEN IF attr_end + 1 # 0
              THEN CollectFrom(cond, next_chr + 2, 0 - 1, attr)
              ELSE CollectFrom(cond, next_chr + 2, 0,
                      Commit(IF Len(attr) > 0
                             THEN Append(attr, ATTR_DELIMITER) ELSE attr,
                             CharAt(cond, next_chr + 1)))
    ELSE IF attr_end = 0
         THEN CollectFrom(cond, next_chr + 1, attr_end,
                          Commit(attr, CharAt(cond, next_chr)))
    ELSE CollectFrom(cond, next_chr + 1, attr_end, attr)

AK_rel_eq_collect_cond_attributes(cond) == CollectFrom(cond, 0, 0 - 1, <<>>)

\* the tokens that are equal to no token before them
RECURSIVE FirstOnes(_, _)
FirstOnes(tokens, seen) ==
    IF tokens = <<>> THEN <<>>
    ELSE IF \E k \in 1..Len(seen) : seen[k] = Head(tokens)
         THEN FirstOnes(Tail(tokens), seen)
    ELSE <<Head(tokens)>> \o FirstOnes(Tail(tokens), Append(seen, Head(tokens)))

AK_rel_eq_remove_duplicates(attribs) == Join(FirstOnes(Tokens(attribs), <<>>))

\* list elements and the list operations (list root not counted)
Elem(type, data) == [type |-> type, data |-> data]

Ak_InsertAtEnd_L3(type, data, temp) == Append(temp, Elem(type, data))

\* the new element takes the place of the element at position k
Ak_InsertBefore_L2(elem, k, temp) ==
    SubSeq(temp, 1, k - 1) \o <<elem>> \o SubSeq(temp, k, Len(temp))

Ak_InsertAfter_L2(elem, k, temp) ==
    SubSeq(temp, 1, k) \o <<elem>> \o SubSeq(temp, k + 1, Len(temp))

\* temp_elem_prev->data[0] == RO_PROJECTION && temp_elem_prev->type ==
\* TYPE_OPERATOR for the element before position k
PrevIsProjection(temp, k) ==
    /\ k > 1
    /\ temp[k - 1].type = TYPE_OPERATOR
    /\ CharAt(temp[k - 1].data, 0) = RO_PROJECTION

\* while (tmp->type != TYPE_OPERAND) tmp = tmp->next, from position k
FirstOperand(temp, k) ==
    CHOOSE m \in k..Len(temp) :
        /\ temp[m].type = TYPE_OPERAND
        /\ \A j \in k..(m - 1) : temp[j].type # TYPE_OPERAND

\* case RO_PROJECTION with the two lists of the subset test exchanged
CascadeProjection_Reversed(temp, op, next) ==
    IF temp # <<>> /\ temp[Len(temp)].type = TYPE_ATTRIBS
    THEN IF AK_rel_eq_is_subset(temp[Len(temp)].data, next.data) = EXIT_FAILURE
         THEN Append(Append(temp, op), next)
         ELSE temp
    ELSE Append(Append(temp, op), next)

\* case RO_PROJECTION
CascadeProjection(temp, op, next) ==
    IF temp # <<>> /\ temp[Len(temp)].type = TYPE_ATTRIBS
    THEN IF AK_rel_eq_is_subset(next.data, temp[Len(temp)].data) = EXIT_FAILURE
         THEN Append(Append(temp, op), next)
         ELSE temp
    ELSE Append(Append(temp, op), next)

\* case RO_SELECTION: the walk back from position k
RECURSIVE CommuteSelection(_, _, _, _)
CommuteSelection(temp, k, op, next) ==
    IF k = 0 THEN Append(Append(temp, op), next)
    ELSE IF temp[k].type \in {TYPE_OPERAND, TYPE_ATTRIBS}
         THEN IF /\ temp[k].type = TYPE_ATTRIBS
                 /\ AK_rel_eq_can_commute(temp[k].data, next.data) = EXIT_FAILURE
                 /\ PrevIsProjection(temp, k)
              THEN Append(Append(temp, op), next)
              ELSE IF PrevIsProjection(temp, k)
                   THEN Ak_InsertBefore_L2(next, k,
                            Ak_InsertBefore_L2(op, k - 1, temp))
              ELSE CommuteSelection(temp, k - 1, op, next)
    ELSE Append(Append(temp, op), next)

\* the copy of the projection that keeps the list as it is
DistributeProjection_NoCopy(temp, k) == temp

\* the projection at k - 1 and its attributes at k, inserted again after
\* the first operand
DistributeProjection(temp, k) ==
    LET m == FirstOperand(temp, k)
    IN  Ak_InsertAfter_L2(temp[k - 1], m, Ak_InsertAfter_L2(temp[k], m, temp))

\* case RO_UNION, RO_INTERSECT: the walk back from position k
RECURSIVE DistributeWalk(_, _, _)
DistributeWalk(temp, k, step) ==
    IF k = 0 THEN temp
    ELSE IF temp[k].type \in {TYPE_OPERAND, TYPE_ATTRIBS}
         THEN IF PrevIsProjection(temp, k)
              THEN IF step + 1 > 1 THEN DistributeProjection(temp, k) ELSE temp
              ELSE DistributeWalk(temp, k - 1, step + 1)
    ELSE temp

\* case RO_THETA_JOIN with the projection at k - 1 and step > 1
ThetaJoinSplit(temp, k, next) ==
    LET has_attributes == AK_rel_eq_can_commute(temp[k].data, next.data)
        data1 == AK_rel_eq_projection_attributes(temp[k].data, temp[k + 1].data)
        data2 == AK_rel_eq_projection_attributes(temp[k].data, temp[k + 2].data)
        cond_attributes == AK_rel_eq_collect_cond_attributes(next.data)
    IN  IF data1 = NULL \/ data2 = NULL THEN temp
        ELSE IF has_attributes = 0
             THEN LET temp1 == [temp EXCEPT ![k].data = data1]
                      m == FirstOperand(temp1, k)
                  IN  Ak_InsertAfter_L2(temp[k - 1], m,
                          Ak_InsertAfter_L2(Elem(temp[k].type, data2), m, temp1))
        ELSE LET new1 == AK_rel_eq_remove_duplicates(
                            data1 \o <<ATTR_DELIMITER>> \o
                            AK_rel_eq_projection_attributes(cond_attributes,
                                                            temp[k + 1].data))
                 temp1 == Ak_InsertAfter_L2(temp[k - 1], k,
                              Ak_InsertAfter_L2(Elem(temp[k].type, new1), k, temp))
                 m == FirstOperand(temp1, k)
                 new2 == AK_rel_eq_remove_duplicates(
                            data2 \o <<ATTR_DELIMITER>> \o
                            AK_rel_eq_projection_attributes(cond_attributes,
                                                            temp1[m + 1].data))
             IN  Ak_InsertAfter_L2(temp[k - 1], m,
                     Ak_InsertAfter_L2(Elem(temp[k].type, new2), m, temp1))

RECURSIVE ThetaJoinWalk(_, _, _, _)
ThetaJoinWalk(temp, k, step, next) ==
    IF k = 0 THEN temp
    ELSE IF temp[k].type \in {TYPE_OPERAND, TYPE_ATTRIBS}
         THEN IF PrevIsProjection(temp, k)
              THEN IF step + 1 > 1 THEN ThetaJoinSplit(temp, k, next) ELSE temp
              ELSE ThetaJoinWalk(temp, k - 1, step + 1, next)
    ELSE temp

\* what the caller gets when the function dereferences a NULL pointer: the
\* process ends with a segmentation fault and no list is returned
Fault == <<Elem("SIGSEGV", <<>>)>>

\* the while loop over list_rel_eq from position i on; an operator whose case
\* uses list_elem_next and steps to list_elem->next twice, read as the last
\* element, dereferences NULL
RECURSIVE RewriteFrom(_, _, _)
RewriteFrom(list, i, temp) ==
    IF i > Len(list) THEN temp
    ELSE LET list_elem == list[i]
             chr == CharAt(list_elem.data, 0)
         IN  IF list_elem.type = TYPE_OPERAND
             THEN RewriteFrom(list, i + 1, Append(temp, list_elem))
             ELSE IF list_elem.type # TYPE_OPERATOR
                  THEN RewriteFrom(list, i + 1, temp)
             ELSE IF /\ i = Len(list)
                     /\ chr \in {RO_PROJECTION, RO_SELECTION,
                                 RO_THETA_JOIN, RO_NAT_JOIN}
                  THEN Fault
             ELSE IF chr = RO_PROJECTION
                  THEN RewriteFrom(list, i + 2,
                           CascadeProjection(temp, list_elem, list[i + 1]))
             ELSE IF chr = RO_SELECTION
                  THEN RewriteFrom(list, i + 2,
                           CommuteSelection(temp, Len(temp), list_elem, list[i + 1]))
             ELSE IF chr \in {RO_UNION, RO_INTERSECT}
                  THEN RewriteFrom(list, i + 1,
                           Append(DistributeWalk(temp, Len(temp), 0 - 1), list_elem))
             ELSE IF chr = RO_THETA_JOIN
                  THEN RewriteFrom(list, i + 2,
                           Append(Append(ThetaJoinWalk(temp, Len(temp), 0 - 1,
                                                       list[i + 1]),
                                         list_elem), list[i + 1]))
             ELSE IF chr = RO_NAT_JOIN
                  THEN RewriteFrom(list, i + 2,
                           Append(Append(temp, list_elem), list[i + 1]))
             ELSE IF chr \in {RO_EXCEPT, RO_RENAME}
                  THEN RewriteFrom(list, i + 1, Append(temp, list_elem))
             ELSE RewriteFrom(list, i + 1, temp)

AK_rel_eq_projection(list_rel_eq) == RewriteFrom(list_rel_eq, 1, <<>>)

\* the inputs of the optimizer
Cond1(n) == <<ATTR_ESCAPE>> \o n \o <<ATTR_ESCAPE, " ", "1", " ", ">">>

Cond2(n1, n2) ==
    <<ATTR_ESCAPE>> \o n1 \o <<ATTR_ESCAPE, " ", ATTR_ESCAPE>> \o n2
        \o <<ATTR_ESCAPE, " ", "=">>

ListsOver(names, len) == {Join(l) : l \in UNION {[1..n -> names] : n \in 1..len}}

SubsetLists == ListsOver({col_x, col_y, col_z}, MaxSubsetLen)

CommuteLists == ListsOver({col_x, col_y, job, id}, MaxCommuteLen)

CommuteConds ==
    {Cond1(n) : n \in {col_x, col_y, col_z, job, id}}
        \cup {Cond2(n[1], n[2]) :
                 n \in {col_x, col_y, col_z, job, id}
                          \X {col_x, col_y, col_z, job, id}}

ExprLists ==
    {Join(l) : l \in {<<col_x>>, <<col_x, col_x>>, <<col_x, col_y>>,
                      <<col_x, col_z>>, <<job, col_y>>, <<job, yob>>,
                      <<col_x, col_y, col_w>>}}

ExprConds == {Cond1(col_x), Cond1(col_z), Cond2(col_x, col_y), Cond2(job, col_y)}

Operator(chr) == Elem(TYPE_OPERATOR, <<chr>>)

Projection(attribs) == <<Operator(RO_PROJECTION), Elem(TYPE_ATTRIBS, attribs)>>

Selection(cond) == <<Operator(RO_SELECTION), Elem(TYPE_CONDITION, cond)>>

ThetaJoin(cond) == <<Operator(RO_THETA_JOIN), Elem(TYPE_CONDITION, cond)>>

NatJoin(attribs) == <<Operator(RO_NAT_JOIN), Elem(TYPE_ATTRIBS, attribs)>>

Rename(attribs) == <<Operator(RO_RENAME), Elem(TYPE_ATTRIBS, attribs)>>

\* an operator that takes an argument, as the last element of the input
Unfinished ==
    {<<Operator(chr)>> :
        chr \in {RO_PROJECTION, RO_SELECTION, RO_THETA_JOIN, RO_NAT_JOIN}}

Operand(tblName) == Elem(TYPE_OPERAND, tblName)

\* a projection, then nothing, a projection or a selection, then one or two
\* tables, then nothing, a union, an intersect, a theta join, a selection, a
\* natural join, an except, a rename, or an operator without its argument
Exprs ==
    {Projection(l) \o mid \o tables \o last :
        l \in ExprLists,
        mid \in {<<>>} \cup {Projection(m) : m \in ExprLists}
                       \cup {Selection(c) : c \in ExprConds},
        tables \in {<<Operand(tblR)>>, <<Operand(tblR), Operand(tblS)>>,
                    <<Operand(profesor), Operand(tblS)>>,
                    <<Operand(tblR), Operand(tblT)>>,
                    <<Operand(tblT), Operand(tblS)>>},
        last \in {<<>>, <<Operator(RO_UNION)>>, <<Operator(RO_INTERSECT)>>}
                     \cup {ThetaJoin(c) : c \in ExprConds}
                     \cup {Selection(c) : c \in ExprConds}
                     \cup {NatJoin(col_x), <<Operator(RO_EXCEPT)>>,
                           Rename(Join(<<col_x, col_y>>))}
                     \cup Unfinished}

\* a projection followed by a table where its attribute list should be, over
\* three tables and a union or an intersect
NoList ==
    {<<Operator(RO_PROJECTION), Operand(tblR), Operand(tblS), Operand(tblT),
       Operator(chr)>> : chr \in {RO_UNION, RO_INTERSECT}}

Call(fn, a, b) == [NoCall EXCEPT !.fn = fn, !.a = a, !.b = b]

RewriterInputs ==
    {Call("AK_rel_eq_is_subset", s[1], s[2]) : s \in SubsetLists \X SubsetLists}
        \cup {Call("AK_rel_eq_can_commute", s[1], s[2]) :
                 s \in CommuteLists \X CommuteConds}
        \cup {Call("AK_rel_eq_projection", e, <<>>) : e \in Exprs \cup NoList}
        \cup {Call("AK_rel_eq_projection_attributes", s[1], s[2]) :
                 s \in (SubsetLists \cup CommuteLists)
                          \X {tblR, tblS, tblT, profesor}}

CallIsSubset ==
    /\ rw.fn = "AK_rel_eq_is_subset" /\ rw.calls = 0
    /\ rw' = [rw EXCEPT !.ret = AK_rel_eq_is_subset(rw.a, rw.b), !.calls = 1]
    /\ UNCHANGED <<lockVars, executorVars>>

CallCanCommute ==
    /\ rw.fn = "AK_rel_eq_can_commute" /\ rw.calls = 0
    /\ rw' = [rw EXCEPT !.ret = AK_rel_eq_can_commute(rw.a, rw.b), !.calls = 1]
    /\ UNCHANGED <<lockVars, executorVars>>

\* AK_rel_eq_projection_attributes(attribs, tblName)
CallProjectionAttributes ==
    /\ rw.fn = "AK_rel_eq_projection_attributes" /\ rw.calls = 0
    /\ rw' = [rw EXCEPT
                !.temp = AK_rel_eq_projection_attributes(rw.a, rw.b),
                !.calls = 1]
    /\ UNCHANGED <<lockVars, executorVars>>

\* AK_rel_eq_projection(expr)
CallProjection ==
    /\ rw.fn = "AK_rel_eq_projection" /\ rw.calls = 0
    /\ rw' = [rw EXCEPT !.first = AK_rel_eq_projection(rw.a),
                        !.temp = AK_rel_eq_projection(rw.a), !.calls = 1]
    /\ UNCHANGED <<lockVars, executorVars>>

\* AK_rel_eq_projection of the list the first call returned
CallProjectionAgain ==
    /\ rw.fn = "AK_rel_eq_projection" /\ rw.calls = 1
    /\ rw.first # Fault
    /\ rw' = [rw EXCEPT !.temp = AK_rel_eq_projection(rw.first), !.calls = 2]
    /\ UNCHANGED <<lockVars, executorVars>>

RewriterNext ==
    \/ CallIsSubset
    \/ CallCanCommute
    \/ CallProjectionAttributes
    \/ CallProjection
    \/ CallProjectionAgain

RewriterStart ==
    /\ LockInit
    /\ lengthOfArray = [t \in Threads |-> 1]
    /\ ManagerInit /\ newTransactionLockMutex = 1
    /\ rw \in RewriterInputs

RewriterSpec == RewriterStart /\ [][RewriterNext]_vars

(* ------------------------- the hash of a block ------------------------- *)
\* AK_memory_block_hash(blockMemoryAddress) for the int in rw.a
CallHash ==
    /\ rw.fn = "AK_memory_block_hash" /\ rw.calls = 0
    /\ rw' = [rw EXCEPT !.ret = AK_memory_block_hash(rw.a), !.calls = 1]
    /\ UNCHANGED <<lockVars, executorVars>>

HashNext == CallHash

\* one call of AK_memory_block_hash with a block address of either sign
HashStart ==
    /\ LockInit
    /\ lengthOfArray = [t \in Threads |-> 1]
    /\ ManagerInit /\ newTransactionLockMutex = 1
    /\ rw \in {[NoCall EXCEPT !.fn = "AK_memory_block_hash", !.a = b] :
                  b \in (0 - MaxBlockAddress)..MaxBlockAddress}

HashSpec == HashStart /\ [][HashNext]_vars

(* ---------------------- the removal of a transaction ------------------- *)
\* the queue of granted shared locks whose k-th lock belongs to ids[k]
LocksOf(ids) ==
    [k \in 1..Len(ids) |->
        [TransactionId |-> ids[k], lock_type |-> SHARED_LOCK,
         isWaiting |-> PASS_LOCK_QUEUE, ptr |-> <<ids[k], k, 1>>]]

\* the queues of one block that two transactions fill with the shared locks
\* of their SELECT commands, in any order
SharedQueues ==
    {LocksOf(ids) : ids \in UNION {[1..n -> 1..2] : n \in 1..MaxQueueLen}}

\* AK_delete_lock_entry_list(blockAddress, id) on the queue in rw.a
CallDeleteLockEntry ==
    /\ rw.fn = "AK_delete_lock_entry_list" /\ rw.calls = 0
    /\ rw' = [rw EXCEPT
                !.temp = AK_delete_lock_entry_list(rw.a, rw.b),
                !.ret = IF AK_search_lock_entry_list_by_key(rw.a, rw.b) = 0
                        THEN NOT_OK ELSE OK,
                !.calls = 1]
    /\ UNCHANGED <<lockVars, executorVars>>

DeleteNext == CallDeleteLockEntry

DeleteStart ==
    /\ LockInit
    /\ lengthOfArray = [t \in Threads |-> 1]
    /\ ManagerInit /\ newTransactionLockMutex = 1
    /\ rw \in {[NoCall EXCEPT !.fn = "AK_delete_lock_entry_list",
                              !.a = q, !.b = tid] :
                  q \in SharedQueues, tid \in 1..2}

DeleteSpec == DeleteStart /\ [][DeleteNext]_vars

(* ------------------------ the buckets of holders ----------------------- *)
\* AK_delete_hash_entry_list that leaves the head on the only record
AK_delete_hash_entry_list_NoReset(T, blockAddress) ==
    LET hash == AK_memory_block_hash(blockAddress)
        k == AK_search_existing_link_for_hook(T, blockAddress)
        bucket == T[hash]
    IN  IF k = 0 THEN [T |-> T, ret |-> NOT_OK]
        ELSE [T |-> [T EXCEPT ![hash] =
                        IF k = 1 /\ Len(bucket) > 1 THEN Tail(bucket)
                        ELSE IF Len(bucket) = 1 THEN bucket
                        ELSE SubSeq(bucket, 1, k - 1)
                                 \o SubSeq(bucket, k + 1, Len(bucket))],
              ret |-> OK]

\* the table and the answer of AK_delete_hash_entry_list: the found record is
\* unlinked; the head moves to the next record when the head was unlinked,
\* and becomes NULL (the empty bucket) when the record was alone
AK_delete_hash_entry_list(T, blockAddress) ==
    LET hash == AK_memory_block_hash(blockAddress)
        k == AK_search_existing_link_for_hook(T, blockAddress)
        bucket == T[hash]
    IN  IF k = 0 THEN [T |-> T, ret |-> NOT_OK]
        ELSE [T |-> [T EXCEPT ![hash] =
                        IF k = 1 /\ Len(bucket) > 1 THEN Tail(bucket)
                        ELSE IF Len(bucket) = 1 THEN <<>>
                        ELSE SubSeq(bucket, 1, k - 1)
                                 \o SubSeq(bucket, k + 1, Len(bucket))],
              ret |-> OK]

\* block addresses that share buckets 0 and 1
BucketAddresses ==
    {0, 1, NUMBER_OF_KEYS, NUMBER_OF_KEYS + 1, 2 * NUMBER_OF_KEYS}

\* AK_add_hash_entry_list(blockAddress, SHARED_LOCK): the existing record is
\* returned, else a record is linked before the head, at the end of the ring;
\* rw.ret is the place of the returned record in its bucket
CallAddHashEntry(blockAddress) ==
    /\ rw.fn = "bucket" /\ rw.calls < MaxBucketCalls
    /\ LET hash == AK_memory_block_hash(blockAddress)
           root == AK_search_existing_link_for_hook(LockTable, blockAddress)
       IN  IF root # 0
           THEN /\ LockTable' = LockTable
                /\ rw' = [rw EXCEPT !.a = blockAddress, !.b = "add",
                                    !.ret = root, !.calls = @ + 1]
           ELSE /\ LockTable' =
                      [LockTable EXCEPT ![hash] =
                          AK_add_hash_entry_list(@, blockAddress,
                                                 SHARED_LOCK, 1)]
                /\ rw' = [rw EXCEPT !.a = blockAddress, !.b = "add",
                                    !.ret = Len(LockTable[hash]) + 1,
                                    !.calls = @ + 1]
    /\ UNCHANGED <<pc, lengthOfArray, task, addresses, address, result,
                   commandCalls, accessLockMutex, executorVars>>

\* AK_delete_hash_entry_list(blockAddress); rw.ret is OK or NOT_OK
CallDeleteHashEntry(blockAddress) ==
    /\ rw.fn = "bucket" /\ rw.calls < MaxBucketCalls
    /\ LET r == AK_delete_hash_entry_list(LockTable, blockAddress)
       IN  /\ LockTable' = r.T
           /\ rw' = [rw EXCEPT !.a = blockAddress, !.b = "delete",
                               !.ret = r.ret, !.calls = @ + 1]
    /\ UNCHANGED <<pc, lengthOfArray, task, addresses, address, result,
                   commandCalls, accessLockMutex, executorVars>>

BucketNext ==
    \E blockAddress \in BucketAddresses :
        \/ CallAddHashEntry(blockAddress)
        \/ CallDeleteHashEntry(blockAddress)

\* the empty table of AK_transaction_manager before any call
BucketStart ==
    /\ LockInit
    /\ lengthOfArray = [t \in Threads |-> 1]
    /\ ManagerInit /\ newTransactionLockMutex = 1
    /\ rw = [NoCall EXCEPT !.fn = "bucket", !.a = 0, !.b = "none"]

BucketSpec == BucketStart /\ [][BucketNext]_vars

\* one task handed in and no other: thread 1 runs it, the other threads were
\* never spawned and have no command, no lock and no result
LoneInit ==
    /\ LockInit
    /\ lengthOfArray \in {l \in [Threads -> 0..MaxCmds] :
                             l[1] >= 1 /\ \A t \in Threads \ {1} : l[t] = 0}
    /\ ManagerInit /\ newTransactionLockMutex = 1
    /\ rw = NoCall

\* the commands of the lone task: every kind on each table the storage
\* knows, and the command on the table it does not know
LoneCommands == KindCommands \cup Commands

LoneNext == StepOn(1, LoneCommands) \/ SpuriousWake(1)

\* the worker takes every step of its code it can take; pthread_cond_wait
\* returns for certain only after a broadcast
LoneSpec == LoneInit /\ [][LoneNext]_vars /\ WF_vars(StepOn(1, LoneCommands))

(* ------------------------------ properties ----------------------------- *)
Blocks ==
    UNION { {AK_get_memory_blocks(c.tblName).list[j] :
                j \in 1..Len(AK_get_memory_blocks(c.tblName).list)} :
            c \in Commands }

Q(b) == Queue(LockTable, b)

\* the acquire that created lock e has returned and its owner still runs
Held(e) ==
    LET t == e.TransactionId
    IN  /\ e.isWaiting = PASS_LOCK_QUEUE
        /\ result[t] = NoResult
        /\ ~(pc[t] = "test" /\ CurLock(t) = e.ptr)

HasLockOf(t, b) == \E k \in 1..Len(Q(b)) : Q(b)[k].TransactionId = t

\* C1: on every block the locks that are held are all shared, or all belong
\* to the one transaction that holds the block exclusively
C1_MutualExclusion ==
    \A b \in Blocks :
        LET G == {k \in 1..Len(Q(b)) : Held(Q(b)[k])}
        IN  \/ \A k \in G : Q(b)[k].lock_type = SHARED_LOCK
            \/ \A k, j \in G : Q(b)[k].TransactionId = Q(b)[j].TransactionId

\* C2: a lock is granted only if every lock enqueued before it on the block
\* is granted, or both are shared
C2_FifoFairness ==
    \A b \in Blocks : \A i, j \in 1..Len(Q(b)) :
        (i < j /\ Q(b)[j].isWaiting = PASS_LOCK_QUEUE)
            => \/ Q(b)[i].isWaiting = PASS_LOCK_QUEUE
               \/ (Q(b)[i].lock_type = SHARED_LOCK /\ Q(b)[j].lock_type = SHARED_LOCK)

\* thread t is inside the wait loop of AK_acquire_lock
InWaitLoop(t) == pc[t] \in {"lockwait", "sleeping", "woken"}

\* C3: a thread that waits for a lock that has become the head of its queue
\* (every lock ahead of it was released) eventually leaves AK_acquire_lock
C3_NoLostWakeup ==
    \A t \in Threads :
        (InWaitLoop(t) /\ Q(CurBlock(t))[1].ptr = CurLock(t)) ~> ~InWaitLoop(t)

\* workers that were spawned and have not yet taken themselves out of the
\* executor (AK_remove_transaction_thread)
ActiveWorkers == {w \in 1..MaxTasks : worker[w] = "running"}

C5_NoPassing ==
    \A b \in Blocks : \A i, j \in 1..Len(Q(b)) :
        (i < j /\ Q(b)[i].isWaiting = WAIT_FOR_UNLOCK
               /\ Q(b)[j].isWaiting = PASS_LOCK_QUEUE)
            => Q(b)[j].TransactionId = Q(b)[1].TransactionId

NoExclusive(q) == \A k \in 1..Len(q) : q[k].lock_type = SHARED_LOCK

Enqueues(t) == pc[t] = "acquire" /\ pc'[t] = "test"

NewLock(t) ==
    LET q == Queue(LockTable', CurBlock(t)) IN q[Len(q)]

LockAfter(t) ==
    LET q == Queue(LockTable', CurBlock(t)) IN q[PosOf(q, CurLock(t))]

\* C6: a shared request on a block whose queue holds no exclusive request is
\* granted when it is enqueued, and the acquire does not enter the wait loop
C6_SharedCoalescing ==
    [][\A t \in Threads :
          /\ (Enqueues(t) /\ CurType(t) = SHARED_LOCK /\ NoExclusive(Q(CurBlock(t))))
                => (NewLock(t).ptr = CurLock(t)
                    /\ NewLock(t).isWaiting = PASS_LOCK_QUEUE)
          /\ (pc[t] = "test" /\ MyLock(t).isWaiting = PASS_LOCK_QUEUE)
                => \/ pc'[t] \in {"acquire", "for"}
                   \/ (pc'[t] = "test"
                       /\ LockAfter(t).isWaiting = PASS_LOCK_QUEUE)]_vars

C6_Witness ==
    \E b \in Blocks :
        /\ Len(Q(b)) = NumTx
        /\ NoExclusive(Q(b))
        /\ \A k \in 1..Len(Q(b)) : Held(Q(b)[k])
        /\ \A t \in Threads : HasLockOf(t, b)

HoldsExclusive(t, b) ==
    \E k \in 1..Len(Q(b)) :
        /\ Q(b)[k].TransactionId = t
        /\ Q(b)[k].lock_type = EXCLUSIVE_LOCK
        /\ Q(b)[k].isWaiting = PASS_LOCK_QUEUE

\* C7: a request of a transaction that holds the block exclusively is granted
\* when it is enqueued, and the acquire does not enter the wait loop
C7_ReentrantExclusive ==
    [][\A t \in Threads :
          /\ (Enqueues(t) /\ HoldsExclusive(t, CurBlock(t)))
                => (NewLock(t).ptr = CurLock(t)
                    /\ NewLock(t).isWaiting = PASS_LOCK_QUEUE)
          /\ (pc[t] = "test" /\ pc'[t] = "lockwait")
                => \A k \in 1..Len(Q(CurBlock(t))) :
                      Q(CurBlock(t))[k].TransactionId = t
                          => Q(CurBlock(t))[k].ptr = CurLock(t)
                             \/ Q(CurBlock(t))[k].lock_type = SHARED_LOCK]_vars

\* a transaction re-entered its exclusive block past a waiting transaction
C7_Witness ==
    \E b \in Blocks : \E t \in Threads :
        /\ Len(Q(b)) = 3
        /\ Q(b)[1].TransactionId = t /\ Q(b)[1].lock_type = EXCLUSIVE_LOCK
        /\ Q(b)[2].TransactionId # t /\ Q(b)[2].isWaiting = WAIT_FOR_UNLOCK
        /\ Q(b)[3].TransactionId = t /\ Q(b)[3].isWaiting = PASS_LOCK_QUEUE
        /\ pc[t] = "release"

BlocksOf(tblName) ==
    LET l == AK_get_memory_blocks(tblName).list IN {l[j] : j \in 1..Len(l)}

\* C8: AK_command runs at most once in a worker, and when it has been called
\* the worker has a granted lock of the demanded mode on every block of every
\* command of its task
C8_LocksBeforeExecution ==
    \A t \in Threads :
        /\ commandCalls[t] <= 1
        /\ (commandCalls[t] = 1 /\ pc[t] = "release")
              => /\ Len(task[t]) = lengthOfArray[t]
                 /\ \A n \in 1..Len(task[t]) : \A b \in BlocksOf(task[t][n].tblName) :
                       \E k \in 1..Len(Q(b)) :
                          /\ Q(b)[k].TransactionId = t
                          /\ Q(b)[k].lock_type = LockTypeOf(task[t][n].id_command)
                          /\ Q(b)[k].isWaiting = PASS_LOCK_QUEUE

\* AK_command was called for a task of two commands on different tables
C8_Witness ==
    \E t \in Threads :
        /\ commandCalls[t] = 1 /\ pc[t] = "release"
        /\ Len(task[t]) = 2
        /\ task[t][1].tblName # task[t][2].tblName

\* C9: a worker that returned COMMIT has no lock left in any queue
C9_CommitReleasesAll ==
    \A t \in Threads : result[t] = COMMIT => \A b \in Blocks : ~HasLockOf(t, b)

\* C10: a worker that returned ABORT has no lock left in any queue
C10_AbortReleasesAll ==
    \A t \in Threads : result[t] = ABORT => \A b \in Blocks : ~HasLockOf(t, b)

\* C11: every call of AK_create_new_transaction_thread the manager makes for
\* a task returns with a worker spawned for it: no task is dropped
C11_AdmissionNeverLoses ==
    [][(mgr = "create" /\ mgr' # "create") => mgr' = "assign"]_vars

\* a worker has written its decrement of transactionsCount
Finished(w) == worker[w] \in {"test", "none"}

\* a task is counted in transactionsCount and its worker is not yet spawned
Pending == mgr \in {"check", "lock", "create"}

\* worker w emits the all-transactions-finished notification
Emits(w) == worker[w] = "test" /\ worker'[w] = "none" /\ transactionsCount = 0

\* the batch was handed in and every worker has returned
BatchOver ==
    /\ submitted = RaceTasks /\ mgr = "submit"
    /\ \A w \in 1..MaxTasks : worker[w] = "none"

\* C12: the notification is emitted only when no task counted in
\* transactionsCount is still unfinished, and when the whole batch has finished the caller that waits
\* on endTransationTestLockMutex has been released
C12_AllFinishedNotification ==
    /\ [][\A w \in 1..MaxTasks :
            Emits(w) => /\ ~Pending
                        /\ \A v \in 1..MaxTasks : Finished(v)]_vars
    /\ [](BatchOver => endTransationTestLockMutex = 0)

\* the mode the kind of a command demands
ModeOf(id_command) ==
    CASE id_command = "SELECT" -> SHARED_LOCK
      [] id_command \in {"INSERT", "UPDATE", "DELETE"} -> EXCLUSIVE_LOCK

\* the blocks the storage lists for a table, in its order
Listed(tblName) ==
    LET a == AK_get_table_addresses(tblName)
    IN  [j \in 1..(a.address_to - a.address_from) |-> a.address_from + j - 1]

\* the locks thread t has requested for its current command
RequestedNow(t) ==
    {b \in Blocks : \E k \in 1..Len(Q(b)) :
        Q(b)[k].ptr[1] = t /\ Q(b)[k].ptr[2] = Len(task[t])}

\* C13: every lock a worker requests is on the next block of the list of the
\* storage for the table of its command, after all the blocks before it, and
\* is shared for SELECT and exclusive for INSERT, UPDATE and DELETE
C13_LockModeByKind ==
    [][\A t \in Threads :
          Enqueues(t) =>
             LET b == Listed(CurCommand(t).tblName)[Cardinality(RequestedNow(t)) + 1]
                 q == Queue(LockTable', b)
             IN  /\ RequestedNow(t) =
                       {Listed(CurCommand(t).tblName)[j] :
                           j \in 1..Cardinality(RequestedNow(t))}
                 /\ Len(q) = Len(Q(b)) + 1
                 /\ q[Len(q)].TransactionId = t
                 /\ q[Len(q)].lock_type = ModeOf(CurCommand(t).id_command)]_vars

\* a worker holds both blocks of professor for an INSERT, a SELECT waits
\* behind it on the first one, and a worker holds student for an UPDATE
C13_Witness ==
    \E t, u, v \in Threads :
        /\ task[t] = <<[tblName |-> "professor", id_command |-> "INSERT"]>>
        /\ task[u] = <<[tblName |-> "professor", id_command |-> "SELECT"]>>
        /\ task[v] = <<[tblName |-> "student", id_command |-> "UPDATE"]>>
        /\ pc[t] = "release" /\ pc[v] = "release"
        /\ \A b \in BlocksOf("professor") :
              /\ Len(Q(b)) >= 1
              /\ Q(b)[1].TransactionId = t /\ Q(b)[1].lock_type = EXCLUSIVE_LOCK
        /\ Len(Q(Listed("professor")[1])) = 2
        /\ Q(Listed("professor")[1])[2].TransactionId = u
        /\ Q(Listed("professor")[1])[2].lock_type = SHARED_LOCK
        /\ Q(1)[1].TransactionId = v /\ Q(1)[1].lock_type = EXCLUSIVE_LOCK

\* the storage returns no block addresses for the table
Unknown(tblName) == AK_get_table_addresses(tblName).address_from = 0

\* C14: a worker whose task names a table without block addresses returns
\* ABORT and has not called AK_command
C14_UnknownResourceAborts ==
    \A t \in Threads :
        (\E n \in 1..Len(task[t]) : Unknown(task[t][n].tblName))
            => result[t] = ABORT /\ commandCalls[t] = 0 /\ pc[t] = "done"

\* a task aborted at its second command, after locks were taken for the first
C14_Witness ==
    \E t \in Threads :
        /\ Len(task[t]) = 2
        /\ ~Unknown(task[t][1].tblName) /\ Unknown(task[t][2].tblName)
        /\ result[t] = ABORT /\ commandCalls[t] = 0
        /\ HasLockOf(t, 1)

\* the attributes an attribute list names, as a set
AttrSet(attribs) == {Tokens(attribs)[k] : k \in 1..Len(Tokens(attribs))}

\* the expression is a projection, a second one and then tables only
IsCascadeInput(expr) ==
    /\ Len(expr) >= 5
    /\ expr[3] = Operator(RO_PROJECTION)
    /\ expr[Len(expr)].type = TYPE_OPERAND

\* C15: for an input p[A] p[B] followed by tables, the output is p[A] and the
\* tables when every attribute of A is in B, and the input itself otherwise
C15_CascadeOfProjections ==
    (rw.fn = "AK_rel_eq_projection" /\ rw.calls >= 1 /\ IsCascadeInput(rw.a))
        => rw.first =
              IF AttrSet(rw.a[2].data) \subseteq AttrSet(rw.a[4].data)
              THEN SubSeq(rw.a, 1, 2) \o SubSeq(rw.a, 5, Len(rw.a))
              ELSE rw.a

\* C20: AK_rel_eq_is_subset(A, B) returns EXIT_SUCCESS exactly when every
\* attribute of B occurs in A, whether or not a list repeats an attribute
C20_SubsetLaw ==
    (rw.fn = "AK_rel_eq_is_subset" /\ rw.calls = 1)
        => (rw.ret = EXIT_SUCCESS <=> AttrSet(rw.b) \subseteq AttrSet(rw.a))

\* the names a condition holds between an opening and a closing ATTR_ESCAPE
EscapedNames(cond) ==
    LET escapes == {k \in 1..Len(cond) : cond[k] = ATTR_ESCAPE}
        opening == {k \in escapes :
                       Cardinality({j \in escapes : j < k}) % 2 = 0}
        closing(k) == CHOOSE j \in escapes :
                          j > k /\ \A i \in escapes : i > k => j <= i
    IN  {SubSeq(cond, k + 1, closing(k) - 1) :
            k \in {o \in opening : \E j \in escapes : j > o}}

\* the expression is a projection, a selection and then tables only
IsCommuteInput(expr) ==
    /\ Len(expr) >= 5
    /\ expr[3] = Operator(RO_SELECTION)
    /\ expr[Len(expr)].type = TYPE_OPERAND

\* C16: AK_rel_eq_can_commute returns EXIT_SUCCESS exactly when every
\* escaped name of the condition is in the attribute list; for an input
\* p[L] s[C] followed by tables the output is s[C] p[L] and the tables when
\* every escaped name of C is in L, and the input itself otherwise
C16_CommuteProjectionSelection ==
    /\ (rw.fn = "AK_rel_eq_can_commute" /\ rw.calls = 1)
          => (rw.ret = EXIT_SUCCESS
                 <=> EscapedNames(rw.b) \subseteq AttrSet(rw.a))
    /\ (rw.fn = "AK_rel_eq_projection" /\ rw.calls >= 1 /\ IsCommuteInput(rw.a))
          => rw.first =
                IF EscapedNames(rw.a[4].data) \subseteq AttrSet(rw.a[2].data)
                THEN SubSeq(rw.a, 3, 4) \o SubSeq(rw.a, 1, 2)
                         \o SubSeq(rw.a, 5, Len(rw.a))
                ELSE rw.a

\* the expression ends with a union or an intersect
EndsWithSetOperator(expr) ==
    /\ expr[Len(expr)].type = TYPE_OPERATOR
    /\ expr[Len(expr)].data[1] \in {RO_UNION, RO_INTERSECT}

\* the list emitted before the last element of the expression is read
EmittedBefore(expr) == AK_rel_eq_projection(SubSeq(expr, 1, Len(expr) - 1))

\* the list ends with a projection, its attributes and n tables
EndsWithProjectionOver(temp, n) ==
    /\ Len(temp) >= n + 2
    /\ temp[Len(temp) - n - 1] = Operator(RO_PROJECTION)
    /\ temp[Len(temp) - n].type = TYPE_ATTRIBS
    /\ \A k \in (Len(temp) - n + 1)..Len(temp) : temp[k].type = TYPE_OPERAND

\* C17: when a union or an intersect is read and the emitted list ends with
\* p[L] R S, the output is the emitted list with p[L] once more before S and
\* then the operator; when it ends with p[L] R, the output is the emitted
\* list and then the operator
C17_DistributeOverUnionIntersect ==
    (rw.fn = "AK_rel_eq_projection" /\ rw.calls >= 1 /\ EndsWithSetOperator(rw.a))
        => LET emitted == EmittedBefore(rw.a)
               n == Len(emitted)
               op == rw.a[Len(rw.a)]
           IN  /\ EndsWithProjectionOver(emitted, 2)
                    => rw.first = SubSeq(emitted, 1, n - 1)
                                      \o <<emitted[n - 3], emitted[n - 2], emitted[n]>>
                                      \o <<op>>
               /\ EndsWithProjectionOver(emitted, 1) => rw.first = Append(emitted, op)

\* an intersect was read after p[L] R S and p[L] stands before R and before S
C17_Witness ==
    /\ rw.fn = "AK_rel_eq_projection" /\ rw.calls >= 1
    /\ EndsWithSetOperator(rw.a)
    /\ EndsWithProjectionOver(EmittedBefore(rw.a), 2)
    /\ Len(rw.first) = 7
    /\ rw.first[1] = rw.first[4] /\ rw.first[2] = rw.first[5]
    /\ rw.first[1] = Operator(RO_PROJECTION)
    /\ rw.first[7] = Operator(RO_INTERSECT)

\* the expression is a projection, two tables with a header and a theta join
IsThetaJoinInput(expr) ==
    /\ Len(expr) = 6
    /\ expr[3].type = TYPE_OPERAND /\ AK_get_header(expr[3].data) # <<>>
    /\ expr[4].type = TYPE_OPERAND /\ AK_get_header(expr[4].data) # <<>>
    /\ expr[5] = Operator(RO_THETA_JOIN)

\* the attributes of the list that the table has, in the order of the list
Restricted(attribs, tblName) ==
    LET header == AK_get_header(tblName)
    IN  Join(SelectSeq(Tokens(attribs),
                       LAMBDA a : \E k \in 1..Len(header) : header[k] = a))

\* C18: for an input p[L] R S t[C] where every escaped name of C is in L, the
\* output is p[L1] R p[L2] S t[C], L1 being the attributes of L in the header
\* of R and L2 those in the header of S
C18_ThetaJoinSplit ==
    ( /\ rw.fn = "AK_rel_eq_projection" /\ rw.calls >= 1
      /\ IsThetaJoinInput(rw.a)
      /\ EscapedNames(rw.a[6].data) \subseteq AttrSet(rw.a[2].data) )
        => rw.first =
              << rw.a[1],
                 Elem(TYPE_ATTRIBS, Restricted(rw.a[2].data, rw.a[3].data)),
                 rw.a[3],
                 rw.a[1],
                 Elem(TYPE_ATTRIBS, Restricted(rw.a[2].data, rw.a[4].data)),
                 rw.a[4], rw.a[5], rw.a[6] >>

\* C19: AK_rel_eq_projection of the list that AK_rel_eq_projection returned
\* is that list again
C19_Idempotence ==
    (rw.fn = "AK_rel_eq_projection" /\ rw.calls = 2) => rw.temp = rw.first

\* C28: AK_memory_block_hash of any block address, negative or not, is the
\* address modulo NUMBER_OF_KEYS, an index of LockTable
C28_HashRange ==
    (rw.fn = "AK_memory_block_hash" /\ rw.calls = 1)
        => /\ rw.ret = rw.a % NUMBER_OF_KEYS
           /\ rw.ret \in DOMAIN LockTable

\* thread t stores the answer of AK_isLock_waiting in its lock: in
\* AK_add_lock, or after pthread_cond_wait
Evaluates(t) == pc[t] \in {"acquire", "woken"} /\ pc'[t] = "test"

\* the holder of the block of t after the step
HolderAfter(t) ==
    LockTable'[AK_memory_block_hash(CurBlock(t))]
              [AK_search_existing_link_for_hook(LockTable', CurBlock(t))]

\* what the oracle is to answer for the lock at position k of queue q
Compatible(q, k) ==
    \/ k = 1
    \/ /\ q[1].isWaiting = PASS_LOCK_QUEUE
       /\ q[1].lock_type = SHARED_LOCK
       /\ q[k].lock_type = SHARED_LOCK
    \/ /\ q[1].isWaiting = PASS_LOCK_QUEUE
       /\ q[1].lock_type = EXCLUSIVE_LOCK
       /\ q[1].TransactionId = q[k].TransactionId

\* C21: AK_isLock_waiting answers PASS_LOCK_QUEUE for a lock exactly when it
\* is the head of the queue, or the head is a granted shared lock and the
\* lock is shared, or the head is a granted exclusive lock of the same
\* transaction; when it passes the head, the holder takes the head's mode
C21_CompatibilityOracle ==
    [][\A t \in Threads :
          Evaluates(t) =>
              LET q == HolderAfter(t).DLLLocks
                  k == PosOf(q, CurLock(t))
              IN  /\ q[k].isWaiting = PASS_LOCK_QUEUE <=> Compatible(q, k)
                  /\ k = 1 => HolderAfter(t).lock_type = q[1].lock_type]_vars

\* thread u is between the lock and the unlock of accessLockMutex in
\* AK_release_locks and block b is in its list
Removing(u, b) ==
    /\ accessLockMutex = u
    /\ \E j \in 1..Len(addresses[u]) : addresses[u][j] = b

\* C22: the lock table is changed under one mutex: no thread adds a lock to
\* a queue or stores a waiting flag in it while another thread is inside
\* AK_release_locks for the block of that queue
C22_SingleTableMutex ==
    [][\A t \in Threads :
          Evaluates(t) =>
              ~\E u \in Threads \ {t} : Removing(u, CurBlock(t))]_vars

\* C23: after the removal of transaction T from the queue of a block, the
\* queue holds no lock of T and the other locks stand in their old order,
\* so that the lock after a removed head is the new head
C23_ReleaseRemovesAll ==
    (rw.fn = "AK_delete_lock_entry_list" /\ rw.calls = 1)
        => rw.temp = SelectSeq(rw.a, LAMBDA e : e.TransactionId # rw.b)

\* C24: a holder is in the lock table only while its queue holds a lock, so
\* when every worker has returned every bucket is empty
C24_RecordLifetime ==
    /\ \A h \in DOMAIN LockTable :
          \A k \in 1..Len(LockTable[h]) : LockTable[h][k].DLLLocks # <<>>
    /\ (\A t \in Threads : pc[t] = "done")
          => \A h \in DOMAIN LockTable : LockTable[h] = <<>>

\* thread t is inside the wait loop of AK_acquire_lock, its lock not granted
Blocked(t) ==
    /\ pc[t] \in {"test", "lockwait", "sleeping", "woken"}
    /\ MyLock(t).isWaiting = WAIT_FOR_UNLOCK

\* t is blocked on a block whose head is a granted exclusive lock of u
WaitsFor(t, u) ==
    /\ Blocked(t)
    /\ LET head == Q(CurBlock(t))[1]
       IN  /\ head.TransactionId = u
           /\ head.lock_type = EXCLUSIVE_LOCK
           /\ head.isWaiting = PASS_LOCK_QUEUE

CircularWait(t, u) == t # u /\ WaitsFor(t, u) /\ WaitsFor(u, t)

OccupiedSlots == {i \in DOMAIN activeThreads : activeThreads[i] # 0}

\* C26: while the main thread is not between pthread_create and the store of
\* the new thread in its slot, activeTransactionsCount is the number of
\* occupied slots and the number of workers spawned and not yet finished
C26_AdmissionCounter ==
    mgr # "assign"
        => /\ activeTransactionsCount = Cardinality(OccupiedSlots)
           /\ activeTransactionsCount = Cardinality(ActiveWorkers)

\* the block addresses with a record reachable from the head of bucket h
AddressesIn(T, h) == {T[h][k].address : k \in 1..Len(T[h])}

AllAddresses(T) == UNION {AddressesIn(T, h) : h \in DOMAIN T}

\* no block address has two records
OneRecordPerBlock(T) ==
    \A h1, h2 \in DOMAIN T :
        \A k1 \in 1..Len(T[h1]), k2 \in 1..Len(T[h2]) :
            T[h1][k1].address = T[h2][k2].address => h1 = h2 /\ k1 = k2

\* every record hangs from the bucket of the hash of its block address
InOwnBucket(T) ==
    \A h \in DOMAIN T :
        \A b \in AddressesIn(T, h) : AK_memory_block_hash(b) = h

\* C27: after every call of AK_add_hash_entry_list and of
\* AK_delete_hash_entry_list, colliding block addresses included, a block
\* address has at most one record, each record is reachable from the bucket
\* of its hash only, adding an address that has a record returns that record
\* and adds none, and deleting the only record of a bucket empties the bucket
C27_BucketMembership ==
    [][LET b == rw'.a
           h == AK_memory_block_hash(b)
       IN  /\ OneRecordPerBlock(LockTable') /\ InOwnBucket(LockTable')
           /\ rw'.b = "add" =>
                 /\ rw'.ret \in 1..Len(LockTable'[h])
                 /\ LockTable'[h][rw'.ret].address = b
                 /\ b \in AllAddresses(LockTable) => LockTable' = LockTable
                 /\ AllAddresses(LockTable') = AllAddresses(LockTable) \cup {b}
           /\ rw'.b = "delete" =>
                 /\ AllAddresses(LockTable') = AllAddresses(LockTable) \ {b}
                 /\ rw'.ret = OK <=> b \in AllAddresses(LockTable)
                 /\ AddressesIn(LockTable, h) = {b} => LockTable'[h] = <<>>
      ]_vars

\* the only record of a bucket was deleted while two colliding block
\* addresses have their records in another bucket
C27_Witness ==
    /\ rw.fn = "bucket" /\ rw.b = "delete" /\ rw.ret = OK
    /\ LockTable[AK_memory_block_hash(rw.a)] = <<>>
    /\ \E h \in DOMAIN LockTable : Len(LockTable[h]) >= 2

\* the input p[prev_top] p[arg] tables without the second projection
Elided(expr) == SubSeq(expr, 1, 2) \o SubSeq(expr, 5, Len(expr))

\* the list names no attribute twice
NoRepeat(attribs) == Cardinality(AttrSet(attribs)) = Len(Tokens(attribs))

\* C29: for an input p[prev_top] p[arg] followed by tables, the second
\* projection and arg are dropped exactly when every attribute of arg is in
\* prev_top, and are emitted otherwise
C29_CascadeDirection ==
    (rw.fn = "AK_rel_eq_projection" /\ rw.calls >= 1 /\ IsCascadeInput(rw.a))
        => rw.first =
              IF AttrSet(rw.a[4].data) \subseteq AttrSet(rw.a[2].data)
              THEN Elided(rw.a)
              ELSE rw.a

\* C29 as amended: the second projection and arg are dropped exactly when
\* AK_rel_eq_is_subset, called with arg as the set and prev_top as the
\* candidate subset, succeeds; for lists that repeat no attribute this is
\* when every attribute of prev_top is in arg
C29_CascadeTest ==
    (rw.fn = "AK_rel_eq_projection" /\ rw.calls >= 1 /\ IsCascadeInput(rw.a))
        => /\ rw.first =
                 IF AK_rel_eq_is_subset(rw.a[4].data, rw.a[2].data)
                        = EXIT_SUCCESS
                 THEN Elided(rw.a)
                 ELSE rw.a
           /\ (NoRepeat(rw.a[2].data) /\ NoRepeat(rw.a[4].data))
                 => (rw.first = Elided(rw.a)
                        <=> AttrSet(rw.a[2].data) \subseteq AttrSet(rw.a[4].data))

\* a projection was dropped whose list has an attribute prev_top has not
C29_Witness ==
    /\ rw.fn = "AK_rel_eq_projection" /\ rw.calls >= 1 /\ IsCascadeInput(rw.a)
    /\ AttrSet(rw.a[2].data) \subseteq AttrSet(rw.a[4].data)
    /\ AttrSet(rw.a[2].data) # AttrSet(rw.a[4].data)
    /\ rw.first = Elided(rw.a)

\* the escaped names of the condition from position k on, in their order
RECURSIVE NamesFrom(_, _)
NamesFrom(cond, k) ==
    LET escapes == {j \in k..Len(cond) : cond[j] = ATTR_ESCAPE}
        opening == CHOOSE j \in escapes : \A i \in escapes : j <= i
        closes == {j \in escapes : j > opening}
        closing == CHOOSE j \in closes : \A i \in closes : j <= i
    IN  IF escapes = {} \/ closes = {} THEN <<>>
        ELSE <<SubSeq(cond, opening + 1, closing - 1)>>
                 \o NamesFrom(cond, closing + 1)

\* the names of the list that are attributes of the table, in list order
InSchema(names, tblName) ==
    LET header == AK_get_header(tblName)
    IN  SelectSeq(names, LAMBDA a : \E k \in 1..Len(header) : header[k] = a)

\* the list without the later occurrences of a name
RECURSIVE KeepFirst(_)
KeepFirst(names) ==
    IF names = <<>> THEN <<>>
    ELSE LET n == Len(names)
             front == KeepFirst(SubSeq(names, 1, n - 1))
         IN  IF \E k \in 1..(n - 1) : names[k] = names[n]
             THEN front
             ELSE Append(front, names[n])

\* L restricted to the table, then the attributes of C the table has
Pushed(attribs, cond, tblName) ==
    Join(KeepFirst(InSchema(Tokens(attribs), tblName)
                       \o InSchema(NamesFrom(cond, 1), tblName)))

\* C30: for an input p[L] R S t[C] where C names an attribute that is not in
\* L, the output is p[L] p[L1 with C's attributes of R] R
\* p[L2 with C's attributes of S] S t[C], each new list without a repeated
\* attribute and in the order of first occurrence
C30_ThetaJoinPush ==
    ( /\ rw.fn = "AK_rel_eq_projection" /\ rw.calls >= 1
      /\ IsThetaJoinInput(rw.a)
      /\ ~(EscapedNames(rw.a[6].data) \subseteq AttrSet(rw.a[2].data)) )
        => rw.first =
              << rw.a[1], rw.a[2],
                 rw.a[1],
                 Elem(TYPE_ATTRIBS,
                      Pushed(rw.a[2].data, rw.a[6].data, rw.a[3].data)),
                 rw.a[3],
                 rw.a[1],
                 Elem(TYPE_ATTRIBS,
                      Pushed(rw.a[2].data, rw.a[6].data, rw.a[4].data)),
                 rw.a[4], rw.a[5], rw.a[6] >>

\* the list emitted for the first n elements of the expression
EmittedFor(expr, n) == AK_rel_eq_projection(SubSeq(expr, 1, n))

\* the expression ends with a selection and its condition, read when the
\* emitted list ends with an operand
EndsWithSelectionAfterOperand(expr) ==
    /\ Len(expr) >= 5
    /\ expr[Len(expr) - 1] = Operator(RO_SELECTION)
    /\ expr[Len(expr)].type = TYPE_CONDITION
    /\ expr[Len(expr) - 2].type = TYPE_OPERAND

\* C31: a selection read when the last emitted element is an operand is
\* appended with its condition at the end of the emitted list, whatever
\* projection stands before the operand
C31_WalkStopsAtOperand ==
    ( /\ rw.fn = "AK_rel_eq_projection" /\ rw.calls >= 1
      /\ EndsWithSelectionAfterOperand(rw.a) )
        => rw.first = EmittedFor(rw.a, Len(rw.a) - 2)
                          \o SubSeq(rw.a, Len(rw.a) - 1, Len(rw.a))

\* the number of elements at the end of the expression that are a natural
\* join, an except or a rename with its argument, 0 when it ends otherwise
PassThroughTail(expr) ==
    LET n == Len(expr)
        IsPassThrough(e) ==
            /\ e.type = TYPE_OPERATOR
            /\ e.data[1] \in {RO_NAT_JOIN, RO_EXCEPT, RO_RENAME}
    IN  IF /\ n >= 2 /\ IsPassThrough(expr[n - 1])
           /\ expr[n].type \in {TYPE_ATTRIBS, TYPE_CONDITION}
        THEN 2
        ELSE IF n >= 1 /\ IsPassThrough(expr[n])
                /\ expr[n].data[1] \in {RO_EXCEPT, RO_RENAME}
             THEN 1
        ELSE 0

\* C32: a natural join, an except or a rename is appended to the emitted list
\* with the argument that follows it, when one does, and the emitted list
\* stays as it was
C32_PassThrough ==
    ( /\ rw.fn = "AK_rel_eq_projection" /\ rw.calls >= 1
      /\ PassThroughTail(rw.a) > 0 )
        => rw.first =
              EmittedFor(rw.a, Len(rw.a) - PassThroughTail(rw.a))
                  \o SubSeq(rw.a, Len(rw.a) - PassThroughTail(rw.a) + 1,
                            Len(rw.a))

\* the expression ends with a theta join and its condition, and one of its
\* tables has no header
EndsWithThetaJoinOverUnknown(expr) ==
    /\ Len(expr) >= 5
    /\ expr[Len(expr) - 1] = Operator(RO_THETA_JOIN)
    /\ expr[Len(expr)].type = TYPE_CONDITION
    /\ \E k \in 1..Len(expr) :
          expr[k].type = TYPE_OPERAND /\ AK_get_header(expr[k].data) = <<>>

\* C33: a theta join over a table without a header leaves the emitted list
\* as it is and is appended with its condition
C33_UnknownSchema ==
    ( /\ rw.fn = "AK_rel_eq_projection" /\ rw.calls >= 1
      /\ EndsWithThetaJoinOverUnknown(rw.a) )
        => rw.first = EmittedFor(rw.a, Len(rw.a) - 2)
                          \o SubSeq(rw.a, Len(rw.a) - 1, Len(rw.a))

\* the theta join of p[L] R T t[C] was read, T without a header and an
\* attribute of L in the header of R, and p[L] R T stands as it was
C33_Witness ==
    /\ rw.fn = "AK_rel_eq_projection" /\ rw.calls >= 1
    /\ EndsWithThetaJoinOverUnknown(rw.a)
    /\ Len(rw.a) = 6
    /\ AK_get_header(rw.a[3].data) # <<>>
    /\ Restricted(rw.a[2].data, rw.a[3].data) # <<>>
    /\ Restricted(rw.a[2].data, rw.a[3].data) # rw.a[2].data
    /\ rw.first = rw.a

\* the expression ends with an operator that takes an argument and has none
EndsUnfinished(expr) ==
    /\ expr[Len(expr)].type = TYPE_OPERATOR
    /\ expr[Len(expr)].data[1] \in {RO_PROJECTION, RO_SELECTION,
                                    RO_NAT_JOIN, RO_THETA_JOIN}

\* C34: when the last element of the input is a projection, a selection, a
\* natural join or a theta join, the function returns the list emitted for
\* the elements before it
C34_MalformedInput ==
    ( /\ rw.fn = "AK_rel_eq_projection" /\ rw.calls >= 1
      /\ EndsUnfinished(rw.a) )
        => rw.first = EmittedFor(rw.a, Len(rw.a) - 1)

\* the attributes of the table that the list names, in the order of the
\* table's header
InHeaderOrder(attribs, tblName) ==
    Join(SelectSeq(AK_get_header(tblName), LAMBDA a : a \in AttrSet(attribs)))

\* C35: for a table with a header, AK_rel_eq_projection_attributes returns
\* the attributes of the list that the table has, in the order of the header
C35_FilterToSchema ==
    ( /\ rw.fn = "AK_rel_eq_projection_attributes" /\ rw.calls = 1
      /\ AK_get_header(rw.b) # <<>> )
        => rw.temp = InHeaderOrder(rw.a, rw.b)

\* C35 as amended: for a table with a header, the function returns the
\* attributes of the list that the table has, in the order of the list and
\* as often as the list names them
C35_FilterInListOrder ==
    ( /\ rw.fn = "AK_rel_eq_projection_attributes" /\ rw.calls = 1
      /\ AK_get_header(rw.b) # <<>> )
        => rw.temp = Restricted(rw.a, rw.b)

\* the function was called with a list that names two attributes of the
\* table in another order than the header, and returned them in that order
C35_Witness ==
    /\ rw.fn = "AK_rel_eq_projection_attributes" /\ rw.calls = 1
    /\ AK_get_header(rw.b) # <<>>
    /\ Len(Tokens(rw.temp)) = 2 /\ NoRepeat(rw.temp)
    /\ rw.temp = rw.a
    /\ rw.temp # InHeaderOrder(rw.a, rw.b)

\* the attributes the projection lists and the conditions of the list name
NamedIn(list) ==
    UNION ( {AttrSet(list[k].data) :
                k \in {j \in 2..Len(list) :
                          /\ list[j].type = TYPE_ATTRIBS
                          /\ list[j - 1] = Operator(RO_PROJECTION)}}
            \cup {EscapedNames(list[k].data) :
                     k \in {j \in 1..Len(list) : list[j].type = TYPE_CONDITION}} )

\* the attributes of the tables of the list
SchemaOf(list) ==
    UNION {AttrSet(Join(AK_get_header(list[k].data))) :
              k \in {j \in 1..Len(list) : list[j].type = TYPE_OPERAND}}

\* every projection list of out names attributes of the input only
ProjectsInputOnly(in, out) ==
    \A k \in 2..Len(out) :
        (out[k].type = TYPE_ATTRIBS /\ out[k - 1] = Operator(RO_PROJECTION))
            => AttrSet(out[k].data) \subseteq NamedIn(in)

\* from position k on the list is p[A] R p[B] S and a theta join
JoinOfProjections(out, k) ==
    /\ k + 6 <= Len(out)
    /\ out[k] = Operator(RO_PROJECTION) /\ out[k + 1].type = TYPE_ATTRIBS
    /\ out[k + 2].type = TYPE_OPERAND
    /\ out[k + 3] = Operator(RO_PROJECTION) /\ out[k + 4].type = TYPE_ATTRIBS
    /\ out[k + 5].type = TYPE_OPERAND
    /\ out[k + 6] = Operator(RO_THETA_JOIN)

\* the attributes kept by the projection at position k: its list, or the
\* lists of both sides when it is the left side of a theta join
KeptBy(out, k) ==
    IF JoinOfProjections(out, k)
    THEN AttrSet(out[k + 1].data) \cup AttrSet(out[k + 4].data)
    ELSE AttrSet(out[k + 1].data)

\* a selection that stands right before a projection names only attributes
\* that the projection keeps
SelectionsCovered(out) ==
    \A k \in 1..(Len(out) - 3) :
        ( /\ out[k] = Operator(RO_SELECTION)
          /\ out[k + 1].type = TYPE_CONDITION
          /\ EscapedNames(out[k + 1].data) \subseteq SchemaOf(out)
          /\ out[k + 2] = Operator(RO_PROJECTION)
          /\ out[k + 3].type = TYPE_ATTRIBS )
            => EscapedNames(out[k + 1].data) \subseteq KeptBy(out, k + 2)

\* a theta join of two projected tables names only attributes of the lists
\* of the two projections
ThetaJoinsCovered(out) ==
    \A k \in 1..(Len(out) - 7) :
        ( /\ JoinOfProjections(out, k)
          /\ out[k + 7].type = TYPE_CONDITION
          /\ EscapedNames(out[k + 7].data) \subseteq SchemaOf(out) )
            => EscapedNames(out[k + 7].data) \subseteq KeptBy(out, k)

\* C36: every attribute of a projection list of the output is named in a
\* projection list or a condition of the input, and a condition over
\* attributes of the tables that the output places outside a projection, or
\* outside the projections of the two tables of a theta join, names only
\* attributes that the projection keeps
C36_AttributeSafety ==
    (rw.fn = "AK_rel_eq_projection" /\ rw.calls >= 1 /\ rw.first # Fault)
        => /\ ProjectsInputOnly(rw.a, rw.first)
           /\ SelectionsCovered(rw.first)
           /\ ThetaJoinsCovered(rw.first)

\* the locks of q that do not belong to transaction tid, in their order
LocksOfOthers(q, tid) == SelectSeq(q, LAMBDA e : e.TransactionId # tid)

\* q2 is q1 with some locks of transaction tid taken out and nothing else
RemovedOnlyOf(q1, q2, tid) ==
    \E S \in SUBSET {k \in 1..Len(q1) : q1[k].TransactionId = tid} :
        LET kept == {k \in 1..Len(q1) : k \notin S}
            nth(j) == CHOOSE k \in kept :
                          Cardinality({i \in kept : i <= k}) = j
        IN  /\ Len(q2) = Cardinality(kept)
            /\ \A j \in 1..Len(q2) : q2[j] = q1[nth(j)]

\* the lock tables differ in nothing but the list of block b, which lost
\* locks of transaction tid only
ReleasedOnly(T1, T2, b, tid) ==
    LET h == AK_memory_block_hash(b)
        k == AK_search_existing_link_for_hook(T1, b)
    IN  /\ DOMAIN T2 = DOMAIN T1
        /\ \A g \in DOMAIN T1 :
              /\ Len(T2[g]) = Len(T1[g])
              /\ \A j \in 1..Len(T1[g]) :
                    IF g = h /\ j = k
                    THEN /\ [T2[g][j] EXCEPT !.DLLLocks = <<>>]
                               = [T1[g][j] EXCEPT !.DLLLocks = <<>>]
                         /\ RemovedOnlyOf(T1[g][j].DLLLocks, T2[g][j].DLLLocks, tid)
                         /\ LocksOfOthers(T2[g][j].DLLLocks, tid)
                               = LocksOfOthers(T1[g][j].DLLLocks, tid)
                    ELSE T2[g][j] = T1[g][j]

\* C37: a step of AK_release_locks of transaction t changes the lock table
\* only in the list of the block it releases, and there only by taking out
\* locks of t: the locks of the other transactions, their flags and their
\* order, and the lists of all other blocks stay as they were
C37_ReleaseFrame ==
    [][\A t \in Threads :
          (pc[t] \in {"release", "delete", "notify"} /\ pc'[t] # pc[t])
              => \/ LockTable' = LockTable
                 \/ /\ pc[t] = "delete"
                    /\ ReleasedOnly(LockTable, LockTable', CurBlock(t), t)]_vars

\* a release has taken the locks of t out of a list that holds the lock of
\* another transaction, while t still has a lock on another block
C37_Witness ==
    \E t \in Threads :
        /\ pc[t] = "notify"
        /\ \E u \in Threads \ {t} :
              \E k \in 1..Len(Queue(LockTable, CurBlock(t))) :
                  Queue(LockTable, CurBlock(t))[k].TransactionId = u
        /\ \A k \in 1..Len(Queue(LockTable, CurBlock(t))) :
              Queue(LockTable, CurBlock(t))[k].TransactionId # t
        /\ \E b \in 1..MaxBlockAddress :
              /\ b # CurBlock(t)
              /\ \E k \in 1..Len(Queue(LockTable, b)) :
                    Queue(LockTable, b)[k].TransactionId = t

\* the lone worker asks for an exclusive lock on a block on which it holds a
\* shared lock, and is told to wait
WaitsForItself ==
    /\ pc[1] = "sleeping"
    /\ CurType(1) = EXCLUSIVE_LOCK
    /\ Q(CurBlock(1))[1].TransactionId = 1
    /\ Q(CurBlock(1))[1].lock_type = SHARED_LOCK

\* C38: a task that runs alone, with no other transaction holding or
\* requesting a lock, always finishes: AK_execute_commands returns COMMIT or
\* ABORT for every sequence of SELECT, INSERT, UPDATE and DELETE commands
C38_LoneTransactionTerminates == <>(result[1] \in {COMMIT, ABORT})

\* the operand (table) tokens of a list, in their order
OperandsOf(list) == SelectSeq(list, LAMBDA e : e.type = TYPE_OPERAND)

\* C39: the operand tokens of the list AK_rel_eq_projection returns are
\* those of its input, equally many and in the same order, whenever the
\* function returns a list
C39_OperandsConserved ==
    (rw.fn = "AK_rel_eq_projection" /\ rw.calls >= 1 /\ rw.first # Fault)
        => OperandsOf(rw.first) = OperandsOf(rw.a)

====
